---- MODULE Spec2Model ----
(***************************************************************************)
(* Model of the SAP reconciliation pipeline of                             *)
(* src/api-services/data-processing/process_sap_data.py:                   *)
(*   - the three reconciliations (process_customer_data,                   *)
(*     process_product_data, process_sales_data) as operators over rows,   *)
(*     with the pandas groupby/agg/concat semantics they rely on;          *)
(*   - the persistence writer (save_processed_data and its three helpers)  *)
(*     as one transaction of MERGE / INSERT statements;                    *)
(*   - the orchestrator process_sap_data as a state machine.               *)
(***************************************************************************)
EXTENDS Integers, Sequences, FiniteSets, TLC

(***************************************************************************)
(* Values.  A numeric cell is a float: a finite rational n/d, NaN (which   *)
(* is also how pandas holds a NULL number) or +/- infinity.  A date cell   *)
(* is a day number or NaT.  A text cell is a string or None.               *)
(***************************************************************************)
None == "None"

NaN == [k |-> "nan", n |-> 0, d |-> 1]

NaT == [k |-> "nat", v |-> 0]

Inf(s) == [k |-> "inf", n |-> s, d |-> 1]

Date(v) == [k |-> "date", v |-> v]

Abs(x) == IF x < 0 THEN -x ELSE x

RECURSIVE GCD(_, _)
GCD(a, b) == IF b = 0 THEN a ELSE GCD(b, a % b)

\* the finite float n/d, in lowest terms with a positive denominator
Rat(n, d) ==
    LET g == GCD(Abs(n), Abs(d))
        s == IF d < 0 THEN -1 ELSE 1
    IN  [k |-> "num", n |-> (s * n) \div g, d |-> (s * d) \div g]

Num(n) == [k |-> "num", n |-> n, d |-> 1]

IsNull(x) == x.k = "nan"

IsFinite(x) == x.k = "num"

Add(x, y) == Rat(x.n * y.d + y.n * x.d, x.d * y.d)

\* float true division of two finite floats (numpy): x/0 is +/-inf, 0/0 is NaN
Divide(x, y) ==
    IF IsNull(x) \/ IsNull(y) THEN NaN
    ELSE IF y.n = 0
         THEN IF x.n = 0 THEN NaN ELSE Inf(IF x.n > 0 THEN 1 ELSE -1)
         ELSE Rat(x.n * y.d, x.d * y.n)

(***************************************************************************)
(* pandas aggregations over one column of one group (a sequence of cells   *)
(* in row order).  All of them skip nulls.                                 *)
(***************************************************************************)
Col(rows, c) == [i \in 1..Len(rows) |-> rows[i][c]]

RECURSIVE AggSum(_)
AggSum(col) ==
    IF col = <<>> THEN Num(0)
    ELSE IF IsNull(Head(col)) THEN AggSum(Tail(col))
         ELSE Add(Head(col), AggSum(Tail(col)))

NonNull(col) == SelectSeq(col, LAMBDA x : ~IsNull(x))

AggMean(col) ==
    LET vals == NonNull(col)
        s == AggSum(vals)
    IN  IF vals = <<>> THEN NaN ELSE Rat(s.n, s.d * Len(vals))

AggCount(col) == Num(Len(SelectSeq(col, LAMBDA x : x # None)))

\* 'first' that does not skip nulls
AggFirst_head(col) == IF col = <<>> THEN None ELSE Head(col)

AggFirst(col) ==
    LET vals == SelectSeq(col, LAMBDA x : x # None)
    IN  IF vals = <<>> THEN None ELSE Head(vals)

RECURSIVE AggMaxDate(_)
AggMaxDate(col) ==
    IF col = <<>> THEN NaT
    ELSE LET h == Head(col)
             m == AggMaxDate(Tail(col))
         IN  IF h.k = "nat" THEN m
             ELSE IF m.k = "nat" THEN h
             ELSE IF h.v >= m.v THEN h ELSE m

(***************************************************************************)
(* groupby(key): the groups are the distinct non-null keys in sorted       *)
(* order (rows whose key is null are dropped); KeyOrder is the sort order  *)
(* of the key values of the model.                                         *)
(***************************************************************************)
CustomerIDs == <<"C1", "C2", "C3">>

ProductCodes == <<"P1", "P2", "P3">>

GroupKeys(rows, key, KeyOrder) ==
    SelectSeq(KeyOrder, LAMBDA kv : \E i \in 1..Len(rows) : rows[i][key] = kv)

Group(rows, key, kv) == SelectSeq(rows, LAMBDA r : r[key] = kv)

\* a DataFrame: the set of its column names and its rows
Frame(columns, rows) == [columns |-> columns, rows |-> rows]

EmptyFrame == Frame({}, <<>>)

\* the outcome of a call: a returned frame, or a raised exception
Ok(df) == [raised |-> "", df |-> df]

Raise(e) == [raised |-> e, df |-> EmptyFrame]

(***************************************************************************)
(* process_customer_data                                                   *)
(***************************************************************************)
CustRollup(id, orders, amount, qty, last, region, rep, segment, source) ==
    [CustomerID |-> id, TotalOrders |-> orders, TotalSalesAmount |-> amount,
     TotalQuantity |-> qty, LastOrderDate |-> last, Region |-> region,
     SalesRep |-> rep, CustomerSegment |-> segment, DataSource |-> source]

\* the per-source order count of the BW rollup
bw_TotalOrders == Num(0)

ecc_customers(ecc_data) ==
    LET keys == GroupKeys(ecc_data, "CustomerID", CustomerIDs)
    IN  Frame({"CustomerID", "TotalOrders", "TotalSalesAmount", "LastOrderDate",
               "Region", "SalesRep", "DataSource"},
              [j \in 1..Len(keys) |->
                 LET g == Group(ecc_data, "CustomerID", keys[j])
                 IN  CustRollup(keys[j],
                                AggCount(Col(g, "OrderNumber")),
                                AggSum(Col(g, "TotalAmount")),
                                NaN,
                                AggMaxDate(Col(g, "OrderDate")),
                                AggFirst(Col(g, "Region")),
                                AggFirst(Col(g, "SalesRep")),
                                None,
                                "SAP_ECC")])

bw_customers(bw_data) ==
    LET keys == GroupKeys(bw_data, "CustomerID", CustomerIDs)
    IN  Frame({"CustomerID", "TotalSalesAmount", "TotalQuantity", "LastOrderDate",
               "Region", "CustomerSegment", "SalesRep", "TotalOrders", "DataSource"},
              [j \in 1..Len(keys) |->
                 LET g == Group(bw_data, "CustomerID", keys[j])
                 IN  CustRollup(keys[j],
                                bw_TotalOrders,
                                AggSum(Col(g, "SalesAmount")),
                                AggSum(Col(g, "SalesQuantity")),
                                AggMaxDate(Col(g, "SalesDate")),
                                AggFirst(Col(g, "Region")),
                                AggFirst(Col(g, "SalesRep")),
                                AggFirst(Col(g, "CustomerSegment")),
                                "SAP_BW")])

\* pd.concat(frames, ignore_index=True): the rows in list order; a column a
\* frame lacks is null in that frame's rows (the rollup rows already hold
\* the null of every column their source does not produce)
RECURSIVE Concat(_)
Concat(frames) ==
    IF frames = <<>> THEN EmptyFrame
    ELSE LET rest == Concat(Tail(frames))
         IN  Frame(Head(frames).columns \cup rest.columns,
                   Head(frames).rows \o rest.rows)

\* 'first' where the code has 'max'
FinalLastOrderDate_first(col) == Head(col)

\* the cross-source aggregation of the concatenated customer rollups
FinalLastOrderDate(col) == AggMaxDate(col)

\* a count of the rollups where the code has 'sum'
FinalTotalOrders_count(col) == Num(Len(col))

FinalTotalOrders(col) == AggSum(col)

FinalCustomerAggColumns ==
    {"TotalOrders", "TotalSalesAmount", "LastOrderDate", "Region", "SalesRep",
     "CustomerSegment"}

final_customers(combined, utcnow) ==
    LET keys == GroupKeys(combined.rows, "CustomerID", CustomerIDs)
    IN  Frame({"CustomerID", "CreatedDate", "UpdatedDate", "IsActive"}
                \cup FinalCustomerAggColumns,
              [j \in 1..Len(keys) |->
                 LET g == Group(combined.rows, "CustomerID", keys[j])
                 IN  [CustomerID |-> keys[j],
                      TotalOrders |-> FinalTotalOrders(Col(g, "TotalOrders")),
                      TotalSalesAmount |-> AggSum(Col(g, "TotalSalesAmount")),
                      LastOrderDate |-> FinalLastOrderDate(Col(g, "LastOrderDate")),
                      Region |-> AggFirst(Col(g, "Region")),
                      SalesRep |-> AggFirst(Col(g, "SalesRep")),
                      CustomerSegment |-> AggFirst(Col(g, "CustomerSegment")),
                      CreatedDate |-> utcnow,
                      UpdatedDate |-> utcnow,
                      IsActive |-> TRUE]])

\* the reconciliation without its guard on an empty list of rollups:
\* pd.concat of no frames raises
process_customer_data_unguarded(ecc_data, bw_data, utcnow) ==
    LET customer_data ==
            (IF ecc_data # <<>> THEN <<ecc_customers(ecc_data)>> ELSE <<>>)
            \o (IF bw_data # <<>> THEN <<bw_customers(bw_data)>> ELSE <<>>)
        combined_customers == Concat(customer_data)
    IN  IF customer_data = <<>>
        THEN Raise("ValueError")
        ELSE IF FinalCustomerAggColumns \subseteq combined_customers.columns
             THEN Ok(final_customers(combined_customers, utcnow))
             ELSE Raise("KeyError")

\* agg({column: how}) raises KeyError when a named column does not exist
process_customer_data(ecc_data, bw_data, utcnow) ==
    LET customer_data ==
            (IF ecc_data # <<>> THEN <<ecc_customers(ecc_data)>> ELSE <<>>)
            \o (IF bw_data # <<>> THEN <<bw_customers(bw_data)>> ELSE <<>>)
        combined_customers == Concat(customer_data)
    IN  IF customer_data # <<>>
        THEN IF FinalCustomerAggColumns \subseteq combined_customers.columns
             THEN Ok(final_customers(combined_customers, utcnow))
             ELSE Raise("KeyError")
        ELSE Ok(EmptyFrame)

(***************************************************************************)
(* process_product_data                                                    *)
(***************************************************************************)
ProdRollup(code, qty, amount, price, category, source) ==
    [ProductCode |-> code, TotalQuantitySold |-> qty, TotalSalesAmount |-> amount,
     UnitPrice |-> price, ProductCategory |-> category, DataSource |-> source]

\* a BW rollup that leaves the unit price null
bw_UnitPrice_null == NaN

\* the unit price the BW rollup is given
bw_UnitPrice == Num(0)

ecc_products(ecc_data) ==
    LET keys == GroupKeys(ecc_data, "ProductCode", ProductCodes)
    IN  Frame({"ProductCode", "TotalQuantitySold", "TotalSalesAmount", "UnitPrice",
               "DataSource"},
              [j \in 1..Len(keys) |->
                 LET g == Group(ecc_data, "ProductCode", keys[j])
                 IN  ProdRollup(keys[j],
                                AggSum(Col(g, "Quantity")),
                                AggSum(Col(g, "TotalAmount")),
                                AggMean(Col(g, "UnitPrice")),
                                None,
                                "SAP_ECC")])

bw_products(bw_data) ==
    LET keys == GroupKeys(bw_data, "ProductCode", ProductCodes)
    IN  Frame({"ProductCode", "TotalQuantitySold", "TotalSalesAmount",
               "ProductCategory", "UnitPrice", "DataSource"},
              [j \in 1..Len(keys) |->
                 LET g == Group(bw_data, "ProductCode", keys[j])
                 IN  ProdRollup(keys[j],
                                AggSum(Col(g, "SalesQuantity")),
                                AggSum(Col(g, "SalesAmount")),
                                bw_UnitPrice,
                                AggFirst(Col(g, "ProductCategory")),
                                "SAP_BW")])

\* 'first' where the code has 'mean'
FinalUnitPrice_first(col) ==
    IF NonNull(col) = <<>> THEN NaN ELSE Head(NonNull(col))

\* the cross-source aggregation of the unit prices of one product
FinalUnitPrice(col) == AggMean(col)

FinalProductAggColumns ==
    {"TotalQuantitySold", "TotalSalesAmount", "UnitPrice", "ProductCategory"}

final_products(combined, utcnow) ==
    LET keys == GroupKeys(combined.rows, "ProductCode", ProductCodes)
    IN  Frame({"ProductCode", "CreatedDate", "UpdatedDate", "IsActive"}
                \cup FinalProductAggColumns,
              [j \in 1..Len(keys) |->
                 LET g == Group(combined.rows, "ProductCode", keys[j])
                 IN  [ProductCode |-> keys[j],
                      TotalQuantitySold |-> AggSum(Col(g, "TotalQuantitySold")),
                      TotalSalesAmount |-> AggSum(Col(g, "TotalSalesAmount")),
                      UnitPrice |-> FinalUnitPrice(Col(g, "UnitPrice")),
                      ProductCategory |-> AggFirst(Col(g, "ProductCategory")),
                      CreatedDate |-> utcnow,
                      UpdatedDate |-> utcnow,
                      IsActive |-> TRUE]])

process_product_data(ecc_data, bw_data, utcnow) ==
    LET product_data ==
            (IF ecc_data # <<>> THEN <<ecc_products(ecc_data)>> ELSE <<>>)
            \o (IF bw_data # <<>> THEN <<bw_products(bw_data)>> ELSE <<>>)
        combined_products == Concat(product_data)
    IN  IF product_data # <<>>
        THEN IF FinalProductAggColumns \subseteq combined_products.columns
             THEN Ok(final_products(combined_products, utcnow))
             ELSE Raise("KeyError")
        ELSE Ok(EmptyFrame)

(***************************************************************************)
(* process_sales_data                                                      *)
(***************************************************************************)
SaleColumns ==
    {"CustomerID", "ProductCode", "OrderNumber", "SalesDate", "SalesAmount",
     "SalesQuantity", "UnitPrice", "Region", "Channel", "SalesRep", "DataSource"}

\* the unit price derived for one BW sale fact
bw_sale_UnitPrice(SalesAmount, SalesQuantity) == Divide(SalesAmount, SalesQuantity)

ecc_sales(ecc_data) ==
    Frame(SaleColumns,
          [i \in 1..Len(ecc_data) |->
             [CustomerID |-> ecc_data[i].CustomerID,
              ProductCode |-> ecc_data[i].ProductCode,
              OrderNumber |-> ecc_data[i].OrderNumber,
              SalesDate |-> ecc_data[i].OrderDate,
              SalesAmount |-> ecc_data[i].TotalAmount,
              SalesQuantity |-> ecc_data[i].Quantity,
              UnitPrice |-> ecc_data[i].UnitPrice,
              Region |-> ecc_data[i].Region,
              Channel |-> "Direct",
              SalesRep |-> ecc_data[i].SalesRep,
              DataSource |-> "SAP_ECC"]])

\* a relabelling that keeps one row per distinct BW fact
bw_sales_distinct(bw_data) ==
    LET kept == SelectSeq([i \in 1..Len(bw_data) |-> i],
                          LAMBDA i : \A j \in 1..(i - 1) : bw_data[j] # bw_data[i])
    IN  Frame(SaleColumns,
              [k \in 1..Len(kept) |->
                 [CustomerID |-> bw_data[kept[k]].CustomerID,
                  ProductCode |-> bw_data[kept[k]].ProductCode,
                  OrderNumber |-> None,
                  SalesDate |-> bw_data[kept[k]].SalesDate,
                  SalesAmount |-> bw_data[kept[k]].SalesAmount,
                  SalesQuantity |-> bw_data[kept[k]].SalesQuantity,
                  UnitPrice |-> bw_sale_UnitPrice(bw_data[kept[k]].SalesAmount,
                                                  bw_data[kept[k]].SalesQuantity),
                  Region |-> bw_data[kept[k]].Region,
                  Channel |-> bw_data[kept[k]].Channel,
                  SalesRep |-> bw_data[kept[k]].SalesRep,
                  DataSource |-> "SAP_BW"]])

bw_sales(bw_data) ==
    Frame(SaleColumns,
          [i \in 1..Len(bw_data) |->
             [CustomerID |-> bw_data[i].CustomerID,
              ProductCode |-> bw_data[i].ProductCode,
              OrderNumber |-> None,
              SalesDate |-> bw_data[i].SalesDate,
              SalesAmount |-> bw_data[i].SalesAmount,
              SalesQuantity |-> bw_data[i].SalesQuantity,
              UnitPrice |-> bw_sale_UnitPrice(bw_data[i].SalesAmount,
                                              bw_data[i].SalesQuantity),
              Region |-> bw_data[i].Region,
              Channel |-> bw_data[i].Channel,
              SalesRep |-> bw_data[i].SalesRep,
              DataSource |-> "SAP_BW"]])

\* a reconciled sale row: the relabelled fields plus the metadata columns
Stamp(r, utcnow) ==
    [CustomerID |-> r.CustomerID, ProductCode |-> r.ProductCode,
     OrderNumber |-> r.OrderNumber, SalesDate |-> r.SalesDate,
     SalesAmount |-> r.SalesAmount, SalesQuantity |-> r.SalesQuantity,
     UnitPrice |-> r.UnitPrice, Region |-> r.Region, Channel |-> r.Channel,
     SalesRep |-> r.SalesRep, DataSource |-> r.DataSource,
     CreatedDate |-> utcnow, IsActive |-> TRUE]

process_sales_data(ecc_data, bw_data, utcnow) ==
    LET sales_data ==
            (IF ecc_data # <<>> THEN <<ecc_sales(ecc_data)>> ELSE <<>>)
            \o (IF bw_data # <<>> THEN <<bw_sales(bw_data)>> ELSE <<>>)
        combined_sales == Concat(sales_data)
    IN  IF sales_data # <<>>
        THEN Ok(Frame(combined_sales.columns \cup {"CreatedDate", "IsActive"},
                      [i \in 1..Len(combined_sales.rows) |->
                         Stamp(combined_sales.rows[i], utcnow)]))
        ELSE Ok(EmptyFrame)

(***************************************************************************)
(* Source rows.  An ECC row is one order line, a BW row one sales summary  *)
(* (the columns the SELECTs return and a reconciliation reads).            *)
(***************************************************************************)
EccRow(CustomerID, OrderNumber, OrderDate, ProductCode, Quantity, UnitPrice, TotalAmount, SalesRep, Region) ==
    [CustomerID |-> CustomerID, OrderNumber |-> OrderNumber, OrderDate |-> OrderDate,
     ProductCode |-> ProductCode, Quantity |-> Quantity, UnitPrice |-> UnitPrice,
     TotalAmount |-> TotalAmount, SalesRep |-> SalesRep, Region |-> Region]

BwRow(CustomerID, ProductCode, SalesAmount, SalesQuantity, SalesDate, SalesRep, Region, Channel, ProductCategory, CustomerSegment) ==
    [CustomerID |-> CustomerID, ProductCode |-> ProductCode,
     SalesAmount |-> SalesAmount, SalesQuantity |-> SalesQuantity,
     SalesDate |-> SalesDate, SalesRep |-> SalesRep, Region |-> Region,
     Channel |-> Channel, ProductCategory |-> ProductCategory,
     CustomerSegment |-> CustomerSegment]

\* one order of C1 for P1, amount 100
E1 == EccRow("C1", "O1", Date(2), "P1", Num(1), Num(100), Num(100), "R1", "North")
\* a line of C1 without order number, region or sales rep
E2 == EccRow("C1", None, Date(1), "P2", Num(2), Num(50), Num(100), None, None)
\* a second customer buying P1 at another price
E3 == EccRow("C2", "O2", Date(3), "P1", Num(1), Num(200), Num(200), "R2", "South")
\* a line with NULL customer, date and numbers
E4 == EccRow(None, "O3", NaT, "P2", NaN, NaN, NaN, "R2", None)
\* a return: negative quantity and amount
E5 == EccRow("C2", "O4", Date(2), "P2", Num(-1), Num(50), Num(-50), None, "South")

\* C1 / P1 with amount 50
B1 == BwRow("C1", "P1", Num(50), Num(1), Date(3), "R9", "East", "Online",
            "Hardware", "Enterprise")
\* a fact with quantity 0 and a non-zero amount, and no texts
B2 == BwRow("C1", "P1", Num(50), Num(0), Date(1), None, None, "Retail", None, None)
\* a fact with quantity 0 and amount 0
B3 == BwRow("C2", "P2", Num(0), Num(0), Date(2), "R3", "West", "Online",
            "Software", "SMB")
\* a customer and a product that only BW knows
B4 == BwRow("C3", "P3", Num(30), Num(2), Date(1), "R3", "West", "Retail",
            "Software", "SMB")
\* a negative amount
B5 == BwRow("C2", "P1", Num(-20), Num(1), Date(4), None, "West", "Online",
            None, "SMB")

EccRows == {E1, E2, E3, E4, E5}

BwRows == {B1, B2, B3, B4, B5}

\* the longest source table the reconciliations are checked on
MaxRows == 2

\* the number of pipeline runs against one analytical store
MaxRuns == 2

SeqsUpTo(S, n) == UNION {[1..m -> S] : m \in 0..n}

\* the 7-day windows a pipeline run may read
EccWindows == {<<>>, <<E1>>, <<E2>>, <<E3, E1>>}

BwWindows == {<<>>, <<B1>>, <<B4>>, <<B1, B2>>}

(***************************************************************************)
(* State                                                                   *)
(***************************************************************************)
VARIABLES
    pc,            \* the stage the current call is at
    run,           \* the number of pipeline runs started
    now,           \* the clock (utcnow / GETUTCDATE), in ticks
    ecc_data,      \* the frame get_raw_sap_ecc_data returned
    bw_data,       \* the frame get_raw_sap_bw_data returned
    customers_df,  \* the frame process_customer_data returned
    products_df,   \* the frame process_product_data returned
    sales_df,      \* the frame process_sales_data returned
    error,         \* the exceptions raised, as <<[stage, exc]>>
    summary,       \* the summary process_sap_data returned, as <<counts>>
    conn,          \* the open transaction: the tables as it sees them
    stmt,          \* the number of statements the transaction has executed
    Customers,     \* committed table Customers: its rows
    Products,      \* committed table Products: its rows
    Sales,         \* committed table Sales: the inserted rows in order
    before,        \* the committed tables when the current run started
    last,          \* the frames of the latest run committed before this one
    stages,        \* the stages the current run has entered, in order
    cpc,           \* concurrent invocations: the stage each one is at
    cstmt,         \* concurrent invocations: the statements each has executed
    ctx,           \* concurrent invocations: each one's uncommitted writes
    cerr,          \* concurrent invocations: the error each one raised
    documents,     \* upload_documents: the list of documents it was given
    batch_start,   \* upload_documents: the loop index i
    batches,       \* upload_documents: the batches sent to the index, in order
    upc,           \* upload_documents: where the call is
    index,         \* the search index: the ids of the documents it holds
    rejected,      \* upload_documents: the ids the index service rejected
    ipc,           \* update_search_index: where the call is
    all_documents, \* update_search_index: the documents read so far
    stored_docs,   \* the documents the store holds, per kind
    trace,         \* update_search_index: the outcomes of its steps, in order
    returned,      \* the string the entry point returned, as <<string>>
    deleted,       \* clear_index: the ids it removed from the index
    trigger,       \* the function that invoked process_sap_data
    response,      \* what that function did with the outcome
    config,        \* which connection settings the environment provides
    via,           \* the connection setting each stage of the run used
    gpc,           \* generate_all_insights: where the call is
    sales_data,    \* the frame get_sales_data returned: its number of rows
    insights,      \* the insights computed so far, in the order of the dict
    itx,           \* save_insights: the table as its transaction sees it
    BusinessInsights, \* committed table BusinessInsights
    gtrace         \* generate_all_insights: the outcomes of its steps

vars == <<pc, run, now, ecc_data, bw_data, customers_df, products_df, sales_df,
          error, summary, conn, stmt, Customers, Products, Sales, before, last,
          stages, cpc, cstmt, ctx, cerr, documents, batch_start, batches, upc,
          index, rejected, ipc, all_documents, stored_docs, trace, returned,
          deleted,
          trigger, response, config, via, gpc, sales_data, insights, itx,
          BusinessInsights, gtrace>>

\* the invokers of process_sap_data: the timer and the HTTP trigger
Procs == {1, 2}

conc_vars == <<cpc, cstmt, ctx, cerr>>

NoConc ==
    /\ cpc = [p \in Procs |-> "idle"]
    /\ cstmt = [p \in Procs |-> 0]
    /\ ctx = [p \in Procs |-> <<>>]
    /\ cerr = [p \in Procs |-> ""]

deploy_vars == <<trigger, response, config, via>>

\* the invoker has not answered yet
NoResponse == [status_code |-> 0, body |-> <<>>, raised |-> "", logged |-> <<>>]

\* no stage has resolved a connection string yet
NoVia == [ecc |-> "", bw |-> "", save |-> ""]

\* an environment that sets both connection strings and the vault URL
FullConfig == [processed |-> TRUE, raw |-> TRUE, vault |-> TRUE]

\* the timer-triggered deployment with every setting present, at rest
Deployed ==
    /\ trigger = "timer"
    /\ response = NoResponse
    /\ config = FullConfig
    /\ via = NoVia

insights_vars == <<gpc, sales_data, insights, itx, BusinessInsights, gtrace>>

\* BusinessInsights before save_insights has ever run
NoTable == [exists |-> FALSE, rows |-> <<>>]

\* no insights generation is in progress
NoInsights ==
    /\ gpc = "idle"
    /\ sales_data = [rows |-> 0]
    /\ insights = <<>>
    /\ itx = NoTable
    /\ BusinessInsights = NoTable
    /\ gtrace = <<>>

upload_vars == <<documents, batch_start, batches, upc, index, rejected>>

update_vars == <<ipc, all_documents, stored_docs, trace, returned, deleted>>

search_vars == <<upload_vars, update_vars>>

\* the documents of a store that holds none
NoDocs == [customers |-> <<>>, sales |-> <<>>, products |-> <<>>]

\* no index update is in progress
NoUpdate ==
    /\ ipc = "idle"
    /\ all_documents = <<>>
    /\ stored_docs = NoDocs
    /\ trace = <<>>
    /\ returned = <<>>
    /\ deleted = {}

\* no upload is in progress
NoUpload ==
    /\ documents = <<>>
    /\ batch_start = 0
    /\ batches = <<>>
    /\ upc = "idle"
    /\ index = {}
    /\ rejected = {}
    /\ NoUpdate

Tables(c, p, s) == [Customers |-> c, Products |-> p, Sales |-> s]

Store == Tables(Customers, Products, Sales)

NoConn == [open |-> FALSE, tables |-> Tables(<<>>, <<>>, <<>>)]

NoFrames == [customers |-> EmptyFrame, products |-> EmptyFrame, sales |-> EmptyFrame]

(***************************************************************************)
(* Persistence writer: the statements of _save_customers, _save_products   *)
(* and _save_sales, applied to the tables the transaction sees.  t is      *)
(* GETUTCDATE() of the statement.                                          *)
(***************************************************************************)
\* the positions of the rows of a table whose key column holds kv
Matching(table, key, kv) == {i \in 1..Len(table) : table[i][key] = kv}

\* a matched MERGE that keeps the later of the stored and the new date
MatchedLastOrderDate_later(old, new) ==
    IF old.k = "nat" THEN new
    ELSE IF new.k = "nat" THEN old
    ELSE IF old.v >= new.v THEN old ELSE new

\* the LastOrderDate a matched MERGE stores
MatchedLastOrderDate(old, new) == new

\* a matched MERGE that leaves UpdatedDate alone
MatchedUpdatedDate_kept(old, t) == old

\* the UpdatedDate a matched MERGE stores
MatchedUpdatedDate(old, t) == t

\* an upsert that replaces a matched row by a freshly inserted one
_save_customers_replace(table, row, t) ==
    LET fresh == [CustomerID |-> row.CustomerID,
                  CustomerSegment |-> row.CustomerSegment,
                  Region |-> row.Region,
                  SalesRep |-> row.SalesRep,
                  TotalOrders |-> row.TotalOrders,
                  TotalSalesAmount |-> row.TotalSalesAmount,
                  LastOrderDate |-> row.LastOrderDate,
                  CreatedDate |-> t, UpdatedDate |-> t, IsActive |-> TRUE]
    IN  IF Matching(table, "CustomerID", row.CustomerID) # {}
        THEN [i \in 1..Len(table) |->
                IF table[i].CustomerID = row.CustomerID THEN fresh ELSE table[i]]
        ELSE Append(table, fresh)

\* MERGE Customers ... ON target.CustomerID = source.CustomerID
_save_customers(table, row, t) ==
    IF Matching(table, "CustomerID", row.CustomerID) # {}
    THEN [i \in 1..Len(table) |->
            IF table[i].CustomerID = row.CustomerID
            THEN [table[i] EXCEPT
                    !.CustomerSegment = row.CustomerSegment,
                    !.Region = row.Region,
                    !.SalesRep = row.SalesRep,
                    !.TotalOrders = row.TotalOrders,
                    !.TotalSalesAmount = row.TotalSalesAmount,
                    !.LastOrderDate = MatchedLastOrderDate(@, row.LastOrderDate),
                    !.UpdatedDate = MatchedUpdatedDate(@, t)]
            ELSE table[i]]
    ELSE Append(table,
                [CustomerID |-> row.CustomerID,
                 CustomerSegment |-> row.CustomerSegment,
                 Region |-> row.Region,
                 SalesRep |-> row.SalesRep,
                 TotalOrders |-> row.TotalOrders,
                 TotalSalesAmount |-> row.TotalSalesAmount,
                 LastOrderDate |-> row.LastOrderDate,
                 CreatedDate |-> t, UpdatedDate |-> t, IsActive |-> TRUE])

\* MERGE Products ... ON target.ProductCode = source.ProductCode
_save_products(table, row, t) ==
    IF Matching(table, "ProductCode", row.ProductCode) # {}
    THEN [i \in 1..Len(table) |->
            IF table[i].ProductCode = row.ProductCode
            THEN [table[i] EXCEPT
                    !.ProductCategory = row.ProductCategory,
                    !.UnitPrice = row.UnitPrice,
                    !.TotalQuantitySold = row.TotalQuantitySold,
                    !.TotalSalesAmount = row.TotalSalesAmount,
                    !.UpdatedDate = t]
            ELSE table[i]]
    ELSE Append(table,
                [ProductCode |-> row.ProductCode,
                 ProductCategory |-> row.ProductCategory,
                 UnitPrice |-> row.UnitPrice,
                 TotalQuantitySold |-> row.TotalQuantitySold,
                 TotalSalesAmount |-> row.TotalSalesAmount,
                 CreatedDate |-> t, UpdatedDate |-> t, IsActive |-> TRUE])

\* an INSERT that skips a fact the table already holds
_save_sales_dedup(table, row, t) ==
    IF \E i \in 1..Len(table) :
         [table[i] EXCEPT !.CreatedDate = t] =
           [CustomerID |-> row.CustomerID, ProductCode |-> row.ProductCode,
            OrderNumber |-> row.OrderNumber, SalesDate |-> row.SalesDate,
            SalesAmount |-> row.SalesAmount, SalesQuantity |-> row.SalesQuantity,
            UnitPrice |-> row.UnitPrice, Region |-> row.Region,
            Channel |-> row.Channel, SalesRep |-> row.SalesRep,
            DataSource |-> row.DataSource, CreatedDate |-> t, IsActive |-> TRUE]
    THEN table
    ELSE Append(table,
           [CustomerID |-> row.CustomerID, ProductCode |-> row.ProductCode,
            OrderNumber |-> row.OrderNumber, SalesDate |-> row.SalesDate,
            SalesAmount |-> row.SalesAmount, SalesQuantity |-> row.SalesQuantity,
            UnitPrice |-> row.UnitPrice, Region |-> row.Region,
            Channel |-> row.Channel, SalesRep |-> row.SalesRep,
            DataSource |-> row.DataSource, CreatedDate |-> t, IsActive |-> TRUE])

\* INSERT INTO Sales
_save_sales(table, row, t) ==
    Append(table,
           [CustomerID |-> row.CustomerID, ProductCode |-> row.ProductCode,
            OrderNumber |-> row.OrderNumber, SalesDate |-> row.SalesDate,
            SalesAmount |-> row.SalesAmount, SalesQuantity |-> row.SalesQuantity,
            UnitPrice |-> row.UnitPrice, Region |-> row.Region,
            Channel |-> row.Channel, SalesRep |-> row.SalesRep,
            DataSource |-> row.DataSource, CreatedDate |-> t, IsActive |-> TRUE])

\* the statements save_processed_data executes, in order: the customers'
\* MERGEs, the products' MERGEs, the sales' INSERTs (an empty frame adds none)
Statements(c_df, p_df, s_df) ==
    [i \in 1..Len(c_df.rows) |-> [table |-> "Customers", row |-> c_df.rows[i]]]
    \o [i \in 1..Len(p_df.rows) |-> [table |-> "Products", row |-> p_df.rows[i]]]
    \o [i \in 1..Len(s_df.rows) |-> [table |-> "Sales", row |-> s_df.rows[i]]]

\* one statement on the tables the transaction sees
Execute(tables, st, t) ==
    IF st.table = "Customers"
    THEN [tables EXCEPT !.Customers = _save_customers(@, st.row, t)]
    ELSE IF st.table = "Products"
         THEN [tables EXCEPT !.Products = _save_products(@, st.row, t)]
         ELSE [tables EXCEPT !.Sales = _save_sales(@, st.row, t)]

\* what conn.commit() makes visible: the tables as the transaction left them
Committed(txTables, stored) == txTables

\* an exit that leaves the executed statements in place
RolledBack_partial(txTables, stored) == txTables

\* what is visible after a rollback: the tables as they were committed
RolledBack(txTables, stored) == stored

(***************************************************************************)
(* process_sap_data: one pipeline run, stage by stage                      *)
(***************************************************************************)
seq_vars ==
    <<pc, run, ecc_data, bw_data, customers_df, products_df, sales_df, error,
      summary, conn, stmt, before, last, stages>>

\* the functions that invoke process_sap_data
Triggers == {"timer", "http"}

\* a get_connection_string that answers with an empty string when nothing
\* is configured
get_connection_string_none(cfg, use_processed_db) ==
    IF use_processed_db /\ cfg.processed
    THEN [raised |-> "", value |-> "PROCESSED_SQL_CONNECTION_STRING"]
    ELSE IF cfg.raw
         THEN [raised |-> "", value |-> "SQL_CONNECTION_STRING"]
         ELSE IF cfg.vault
              THEN [raised |-> "", value |-> "sql-connection-string"]
              ELSE [raised |-> "", value |-> ""]

\* a get_connection_string that prefers the raw-source string
get_connection_string_raw_first(cfg, use_processed_db) ==
    IF cfg.raw
    THEN [raised |-> "", value |-> "SQL_CONNECTION_STRING"]
    ELSE IF use_processed_db /\ cfg.processed
         THEN [raised |-> "", value |-> "PROCESSED_SQL_CONNECTION_STRING"]
         ELSE IF cfg.vault
              THEN [raised |-> "", value |-> "sql-connection-string"]
              ELSE [raised |-> "ValueError", value |-> ""]

\* self.get_connection_string(use_processed_db): the setting it resolves
\* to, or the ValueError it raises
get_connection_string(cfg, use_processed_db) ==
    IF use_processed_db /\ cfg.processed
    THEN [raised |-> "", value |-> "PROCESSED_SQL_CONNECTION_STRING"]
    ELSE IF cfg.raw
         THEN [raised |-> "", value |-> "SQL_CONNECTION_STRING"]
         ELSE IF cfg.vault
              THEN [raised |-> "", value |-> "sql-connection-string"]
              ELSE [raised |-> "ValueError", value |-> ""]

\* what a stage that needs a connection raises when it fails: the
\* ValueError of get_connection_string, or an error of the connection or
\* the query
ConnectionFailure(use_processed_db) ==
    IF get_connection_string(config, use_processed_db).raised # ""
    THEN get_connection_string(config, use_processed_db).raised
    ELSE "Error"

Exc(stage, exc) == [stage |-> stage, exc |-> exc]

\* a BW read failure that is logged and not raised
Abort_continue(stage, exc) ==
    /\ pc' = IF stage = "get_raw_sap_bw_data" THEN "customers" ELSE "failed"
    /\ error' = <<[stage |-> stage, exc |-> exc]>>

\* an exception leaves process_sap_data: no later stage runs
Abort(stage, exc) ==
    /\ pc' = "failed"
    /\ error' = <<Exc(stage, exc)>>

\* the run enters a stage
Enter(stage) == stages' = Append(stages, stage)

data_vars == <<ecc_data, bw_data, customers_df, products_df, sales_df>>

store_vars == <<Customers, Products, Sales>>

StartRun ==
    /\ pc \in {"idle", "done", "failed"}
    /\ pc # "idle" => response # NoResponse
    /\ run < MaxRuns
    /\ trigger' \in Triggers
    /\ response' = NoResponse
    /\ via' = NoVia
    /\ UNCHANGED config
    /\ pc' = "read_ecc"
    /\ run' = run + 1
    /\ ecc_data' = <<>>
    /\ bw_data' = <<>>
    /\ customers_df' = EmptyFrame
    /\ products_df' = EmptyFrame
    /\ sales_df' = EmptyFrame
    /\ error' = <<>>
    /\ summary' = <<>>
    /\ before' = Store
    /\ last' = IF pc = "done"
               THEN [customers |-> customers_df, products |-> products_df,
                     sales |-> sales_df]
               ELSE last
    /\ stages' = <<>>
    /\ stmt' = 0
    /\ UNCHANGED <<now, conn, store_vars>>
    /\ UNCHANGED conc_vars
    /\ UNCHANGED search_vars
    /\ UNCHANGED insights_vars

ReadEcc ==
    /\ pc = "read_ecc"
    /\ get_connection_string(config, FALSE).raised = ""
    /\ \E w \in EccWindows : ecc_data' = w
    /\ pc' = "read_bw"
    /\ UNCHANGED <<run, now, bw_data, customers_df, products_df, sales_df, error,
                   summary, conn, stmt, store_vars, before, last>>
    /\ Enter("get_raw_sap_ecc_data")
    /\ UNCHANGED conc_vars
    /\ UNCHANGED search_vars
    /\ UNCHANGED insights_vars
    /\ via' = [via EXCEPT !.ecc = get_connection_string(config, FALSE).value]
    /\ UNCHANGED <<trigger, response, config>>

ReadEccFails ==
    /\ pc = "read_ecc"
    /\ Abort("get_raw_sap_ecc_data", ConnectionFailure(FALSE))
    /\ UNCHANGED <<run, now, data_vars, summary, conn, stmt, store_vars, before, last>>
    /\ Enter("get_raw_sap_ecc_data")
    /\ UNCHANGED conc_vars
    /\ UNCHANGED search_vars
    /\ UNCHANGED insights_vars
    /\ UNCHANGED deploy_vars

ReadBw ==
    /\ pc = "read_bw"
    /\ get_connection_string(config, FALSE).raised = ""
    /\ \E w \in BwWindows : bw_data' = w
    /\ pc' = "customers"
    /\ UNCHANGED <<run, now, ecc_data, customers_df, products_df, sales_df, error,
                   summary, conn, stmt, store_vars, before, last>>
    /\ Enter("get_raw_sap_bw_data")
    /\ UNCHANGED conc_vars
    /\ UNCHANGED search_vars
    /\ UNCHANGED insights_vars
    /\ via' = [via EXCEPT !.bw = get_connection_string(config, FALSE).value]
    /\ UNCHANGED <<trigger, response, config>>

ReadBwFails ==
    /\ pc = "read_bw"
    /\ Abort("get_raw_sap_bw_data", ConnectionFailure(FALSE))
    /\ UNCHANGED <<run, now, data_vars, summary, conn, stmt, store_vars, before, last>>
    /\ Enter("get_raw_sap_bw_data")
    /\ UNCHANGED conc_vars
    /\ UNCHANGED search_vars
    /\ UNCHANGED insights_vars
    /\ UNCHANGED deploy_vars

ProcessCustomers ==
    /\ pc = "customers"
    /\ LET r == process_customer_data(ecc_data, bw_data, now)
       IN  IF r.raised = ""
           THEN /\ customers_df' = r.df
                /\ pc' = "products"
                /\ UNCHANGED error
           ELSE /\ Abort("process_customer_data", r.raised)
                /\ UNCHANGED customers_df
    /\ UNCHANGED <<run, now, ecc_data, bw_data, products_df, sales_df, summary,
                   conn, stmt, store_vars, before, last>>
    /\ Enter("process_customer_data")
    /\ UNCHANGED conc_vars
    /\ UNCHANGED search_vars
    /\ UNCHANGED insights_vars
    /\ UNCHANGED deploy_vars

ProcessProducts ==
    /\ pc = "products"
    /\ LET r == process_product_data(ecc_data, bw_data, now)
       IN  IF r.raised = ""
           THEN /\ products_df' = r.df
                /\ pc' = "sales"
                /\ UNCHANGED error
           ELSE /\ Abort("process_product_data", r.raised)
                /\ UNCHANGED products_df
    /\ UNCHANGED <<run, now, ecc_data, bw_data, customers_df, sales_df, summary,
                   conn, stmt, store_vars, before, last>>
    /\ Enter("process_product_data")
    /\ UNCHANGED conc_vars
    /\ UNCHANGED search_vars
    /\ UNCHANGED insights_vars
    /\ UNCHANGED deploy_vars

ProcessSales ==
    /\ pc = "sales"
    /\ LET r == process_sales_data(ecc_data, bw_data, now)
       IN  IF r.raised = ""
           THEN /\ sales_df' = r.df
                /\ pc' = "connect"
                /\ UNCHANGED error
           ELSE /\ Abort("process_sales_data", r.raised)
                /\ UNCHANGED sales_df
    /\ UNCHANGED <<run, now, ecc_data, bw_data, customers_df, products_df, summary,
                   conn, stmt, store_vars, before, last>>
    /\ Enter("process_sales_data")
    /\ UNCHANGED conc_vars
    /\ UNCHANGED search_vars
    /\ UNCHANGED insights_vars
    /\ UNCHANGED deploy_vars

\* a writer that is started before the sales have been reconciled
Connect_early ==
    /\ pc \in {"sales", "connect"}
    /\ get_connection_string(config, TRUE).raised = ""
    /\ now' = now + 1
    /\ conn' = [open |-> TRUE, tables |-> Store]
    /\ stmt' = 0
    /\ pc' = "save"
    /\ UNCHANGED <<run, data_vars, error, summary, store_vars, before, last>>
    /\ Enter("save_processed_data")
    /\ UNCHANGED conc_vars
    /\ UNCHANGED search_vars
    /\ UNCHANGED insights_vars
    /\ via' = [via EXCEPT !.save = get_connection_string(config, TRUE).value]
    /\ UNCHANGED <<trigger, response, config>>

\* pyodbc.connect: a transaction opens on the committed tables.  The clock
\* is counted in ticks such that a call of the writer starts at least one
\* tick after everything before it.
Connect ==
    /\ pc = "connect"
    /\ get_connection_string(config, TRUE).raised = ""
    /\ now' = now + 1
    /\ conn' = [open |-> TRUE, tables |-> Store]
    /\ stmt' = 0
    /\ pc' = "save"
    /\ UNCHANGED <<run, data_vars, error, summary, store_vars, before, last>>
    /\ Enter("save_processed_data")
    /\ UNCHANGED conc_vars
    /\ UNCHANGED search_vars
    /\ UNCHANGED insights_vars
    /\ via' = [via EXCEPT !.save = get_connection_string(config, TRUE).value]
    /\ UNCHANGED <<trigger, response, config>>

ConnectFails ==
    /\ pc = "connect"
    /\ Abort("save_processed_data", ConnectionFailure(TRUE))
    /\ UNCHANGED <<run, now, data_vars, summary, conn, stmt, store_vars, before, last>>
    /\ Enter("save_processed_data")
    /\ UNCHANGED conc_vars
    /\ UNCHANGED search_vars
    /\ UNCHANGED insights_vars
    /\ UNCHANGED deploy_vars

\* cursor.execute of the next statement, inside the transaction
SaveStatement ==
    /\ pc = "save"
    /\ stmt < Len(Statements(customers_df, products_df, sales_df))
    /\ conn' = [conn EXCEPT !.tables =
                  Execute(@, Statements(customers_df, products_df, sales_df)[stmt + 1],
                          now)]
    /\ stmt' = stmt + 1
    /\ UNCHANGED <<pc, run, now, data_vars, error, summary, store_vars, before, last, stages>>
    /\ UNCHANGED conc_vars
    /\ UNCHANGED search_vars
    /\ UNCHANGED insights_vars
    /\ UNCHANGED deploy_vars

\* the store rejects the next statement: the exception leaves the with
\* block, whose exit rolls the transaction back
SaveStatementFails ==
    /\ pc = "save"
    /\ stmt < Len(Statements(customers_df, products_df, sales_df))
    /\ LET t == RolledBack(conn.tables, Store)
       IN  /\ Customers' = t.Customers
           /\ Products' = t.Products
           /\ Sales' = t.Sales
    /\ conn' = NoConn
    /\ Abort("save_processed_data", "Error")
    /\ UNCHANGED <<run, now, data_vars, summary, stmt, before, last, stages>>
    /\ UNCHANGED conc_vars
    /\ UNCHANGED search_vars
    /\ UNCHANGED insights_vars
    /\ UNCHANGED deploy_vars

\* conn.commit() after the last statement, then the summary is returned
Commit ==
    /\ pc = "save"
    /\ stmt = Len(Statements(customers_df, products_df, sales_df))
    /\ LET t == Committed(conn.tables, Store)
       IN  /\ Customers' = t.Customers
           /\ Products' = t.Products
           /\ Sales' = t.Sales
    /\ conn' = NoConn
    /\ pc' = "done"
    /\ summary' = <<[customers |-> Len(customers_df.rows),
                     products |-> Len(products_df.rows),
                     sales |-> Len(sales_df.rows)]>>
    /\ UNCHANGED <<run, now, data_vars, error, stmt, before, last, stages>>
    /\ UNCHANGED conc_vars
    /\ UNCHANGED search_vars
    /\ UNCHANGED insights_vars
    /\ UNCHANGED deploy_vars

CommitFails ==
    /\ pc = "save"
    /\ stmt = Len(Statements(customers_df, products_df, sales_df))
    /\ LET t == RolledBack(conn.tables, Store)
       IN  /\ Customers' = t.Customers
           /\ Products' = t.Products
           /\ Sales' = t.Sales
    /\ conn' = NoConn
    /\ Abort("save_processed_data", "Error")
    /\ UNCHANGED <<run, now, data_vars, summary, stmt, before, last, stages>>
    /\ UNCHANGED conc_vars
    /\ UNCHANGED search_vars
    /\ UNCHANGED insights_vars
    /\ UNCHANGED deploy_vars

Init ==
    /\ pc = "idle"
    /\ run = 0
    /\ now = 1
    /\ ecc_data = <<>>
    /\ bw_data = <<>>
    /\ customers_df = EmptyFrame
    /\ products_df = EmptyFrame
    /\ sales_df = EmptyFrame
    /\ error = <<>>
    /\ summary = <<>>
    /\ conn = NoConn
    /\ stmt = 0
    /\ Customers = <<>>
    /\ Products = <<>>
    /\ Sales = <<>>
    /\ before = Tables(<<>>, <<>>, <<>>)
    /\ last = NoFrames
    /\ stages = <<>>
    /\ NoConc
    /\ NoUpload
    /\ NoInsights
    /\ Deployed

\* process_sap_data_timer: log the result, or log the error and re-raise it
timer_response(ok, result, e) ==
    IF ok
    THEN [status_code |-> 0, body |-> <<>>, raised |-> "", logged |-> result]
    ELSE [status_code |-> 0, body |-> <<>>, raised |-> e[1].exc, logged |-> e]

\* an HTTP trigger that logs the error and answers 200 all the same
http_response_ok(ok, result, e) ==
    [status_code |-> 200, body |-> IF ok THEN result ELSE e, raised |-> "",
     logged |-> IF ok THEN <<>> ELSE e]

\* process_sap_data_http: answer 200 with the result, or log the error and
\* answer 500 with it
http_response(ok, result, e) ==
    IF ok
    THEN [status_code |-> 200, body |-> result, raised |-> "", logged |-> <<>>]
    ELSE [status_code |-> 500, body |-> e, raised |-> "", logged |-> e]

\* process_sap_data has returned or raised inside process_sap_data_timer
process_sap_data_timer ==
    /\ pc \in {"done", "failed"}
    /\ trigger = "timer"
    /\ response = NoResponse
    /\ response' = timer_response(pc = "done", summary, error)
    /\ UNCHANGED <<trigger, config, via>>
    /\ UNCHANGED <<seq_vars, now, Customers, Products, Sales>>
    /\ UNCHANGED conc_vars
    /\ UNCHANGED search_vars
    /\ UNCHANGED insights_vars

\* process_sap_data has returned or raised inside process_sap_data_http
process_sap_data_http ==
    /\ pc \in {"done", "failed"}
    /\ trigger = "http"
    /\ response = NoResponse
    /\ response' = http_response(pc = "done", summary, error)
    /\ UNCHANGED <<trigger, config, via>>
    /\ UNCHANGED <<seq_vars, now, Customers, Products, Sales>>
    /\ UNCHANGED conc_vars
    /\ UNCHANGED search_vars
    /\ UNCHANGED insights_vars

Next ==
    \/ StartRun
    \/ ReadEcc
    \/ ReadEccFails
    \/ ReadBw
    \/ ReadBwFails
    \/ ProcessCustomers
    \/ ProcessProducts
    \/ ProcessSales
    \/ Connect
    \/ ConnectFails
    \/ SaveStatement
    \/ SaveStatementFails
    \/ Commit
    \/ CommitFails
    \/ process_sap_data_timer
    \/ process_sap_data_http

Spec == Init /\ [][Next]_vars

(***************************************************************************)
(* The reconciliations on their own: each of the three functions called    *)
(* once on every pair of source tables of up to MaxRows rows.              *)
(***************************************************************************)
Raised(stage) == \E i \in 1..Len(error) : error[i].stage = stage

Record(r, stage) == IF r.raised = "" THEN error ELSE Append(error, Exc(stage, r.raised))

InitRecon ==
    /\ pc = "call_customers"
    /\ run = 0
    /\ now = 1
    /\ ecc_data \in SeqsUpTo(EccRows, MaxRows)
    /\ bw_data \in SeqsUpTo(BwRows, MaxRows)
    /\ customers_df = EmptyFrame
    /\ products_df = EmptyFrame
    /\ sales_df = EmptyFrame
    /\ error = <<>>
    /\ summary = <<>>
    /\ conn = NoConn
    /\ stmt = 0
    /\ Customers = <<>>
    /\ Products = <<>>
    /\ Sales = <<>>
    /\ before = Tables(<<>>, <<>>, <<>>)
    /\ last = NoFrames
    /\ stages = <<>>
    /\ NoConc
    /\ NoUpload
    /\ NoInsights
    /\ Deployed

CallProcessCustomerData ==
    /\ pc = "call_customers"
    /\ LET r == process_customer_data(ecc_data, bw_data, now)
       IN  /\ customers_df' = r.df
           /\ error' = Record(r, "process_customer_data")
    /\ pc' = "call_products"
    /\ UNCHANGED <<run, now, ecc_data, bw_data, products_df, sales_df, summary,
                   conn, stmt, store_vars, before, last, stages>>
    /\ UNCHANGED conc_vars
    /\ UNCHANGED search_vars
    /\ UNCHANGED insights_vars
    /\ UNCHANGED deploy_vars

CallProcessProductData ==
    /\ pc = "call_products"
    /\ LET r == process_product_data(ecc_data, bw_data, now)
       IN  /\ products_df' = r.df
           /\ error' = Record(r, "process_product_data")
    /\ pc' = "call_sales"
    /\ UNCHANGED <<run, now, ecc_data, bw_data, customers_df, sales_df, summary,
                   conn, stmt, store_vars, before, last, stages>>
    /\ UNCHANGED conc_vars
    /\ UNCHANGED search_vars
    /\ UNCHANGED insights_vars
    /\ UNCHANGED deploy_vars

CallProcessSalesData ==
    /\ pc = "call_sales"
    /\ LET r == process_sales_data(ecc_data, bw_data, now)
       IN  /\ sales_df' = r.df
           /\ error' = Record(r, "process_sales_data")
    /\ pc' = "called"
    /\ UNCHANGED <<run, now, ecc_data, bw_data, customers_df, products_df, summary,
                   conn, stmt, store_vars, before, last, stages>>
    /\ UNCHANGED conc_vars
    /\ UNCHANGED search_vars
    /\ UNCHANGED insights_vars
    /\ UNCHANGED deploy_vars

NextRecon ==
    \/ CallProcessCustomerData
    \/ CallProcessProductData
    \/ CallProcessSalesData

SpecRecon == InitRecon /\ [][NextRecon]_vars

(***************************************************************************)
(* Properties of the reconciliations (checked under SpecRecon, in the      *)
(* states in which all three functions have been called)                   *)
(***************************************************************************)
\* the distinct non-null values of a key column of a source table
IdsOf(rows, key) == {rows[i][key] : i \in 1..Len(rows)} \ {None}

\* the positions of the rows of a frame with a given key
RowsOf(df, key, kv) == {i \in 1..Len(df.rows) : df.rows[i][key] = kv}

\* the row a frame holds for a key
RowOf(df, key, kv) == df.rows[CHOOSE i \in RowsOf(df, key, kv) : TRUE]

SourceCustomerIDs == IdsOf(ecc_data, "CustomerID") \cup IdsOf(bw_data, "CustomerID")

SourceProductCodes == IdsOf(ecc_data, "ProductCode") \cup IdsOf(bw_data, "ProductCode")

SharedCustomerIDs == IdsOf(ecc_data, "CustomerID") \cap IdsOf(bw_data, "CustomerID")

SharedProductCodes == IdsOf(ecc_data, "ProductCode") \cap IdsOf(bw_data, "ProductCode")

Later(a, b) ==
    IF a.k = "nat" THEN b ELSE IF b.k = "nat" THEN a ELSE IF a.v >= b.v THEN a ELSE b

\* C1: for any ECC and BW inputs, process_customer_data returns exactly one
\* row for every distinct CustomerID occurring in either source, and
\* process_product_data exactly one row for every distinct ProductCode.
C1_OneRowPerKey ==
    pc = "called" =>
        /\ \A id \in SourceCustomerIDs :
             Cardinality(RowsOf(customers_df, "CustomerID", id)) = 1
        /\ \A code \in SourceProductCodes :
             Cardinality(RowsOf(products_df, "ProductCode", code)) = 1

\* C2: for a CustomerID present in both sources the merged row has
\* TotalOrders and TotalSalesAmount equal to the sums of the two per-source
\* rollups and LastOrderDate equal to the later of the two per-source
\* maxima; ECC C1 with one order of 100 plus BW C1 with 50 gives
\* total_orders = 1 and total_sales_amount = 150.
C2_SumAndMax ==
    pc = "called" =>
        /\ \A id \in SharedCustomerIDs :
             /\ Cardinality(RowsOf(customers_df, "CustomerID", id)) = 1
             /\ LET m == RowOf(customers_df, "CustomerID", id)
                    e == RowOf(ecc_customers(ecc_data), "CustomerID", id)
                    b == RowOf(bw_customers(bw_data), "CustomerID", id)
                IN  /\ m.TotalOrders = Add(e.TotalOrders, b.TotalOrders)
                    /\ m.TotalSalesAmount = Add(e.TotalSalesAmount, b.TotalSalesAmount)
                    /\ m.LastOrderDate = Later(e.LastOrderDate, b.LastOrderDate)
        /\ (ecc_data = <<E1>> /\ bw_data = <<B1>>) =>
             /\ Len(customers_df.rows) = 1
             /\ customers_df.rows[1].CustomerID = "C1"
             /\ customers_df.rows[1].TotalOrders = Num(1)
             /\ customers_df.rows[1].TotalSalesAmount = Num(150)

\* C2 witness: a customer of both sources, with orders on the ECC side and
\* different last dates on the two sides, has been reconciled
C2_Witness ==
    /\ pc = "called"
    /\ \E id \in SharedCustomerIDs :
         LET e == RowOf(ecc_customers(ecc_data), "CustomerID", id)
             b == RowOf(bw_customers(bw_data), "CustomerID", id)
         IN  /\ e.TotalOrders.n > 0
             /\ e.LastOrderDate.k = "date"
             /\ b.LastOrderDate.k = "date"
             /\ e.LastOrderDate.v < b.LastOrderDate.v
             /\ RowsOf(customers_df, "CustomerID", id) # {}

\* C3 as stated: for a product of both sources the merged UnitPrice is the
\* first non-null per-source unit price in ECC-before-BW order, i.e. the
\* ECC mean (BW's fixed 0 does not change it).
C3_FirstNonNullUnitPrice ==
    pc = "called" =>
        \A code \in SharedProductCodes :
            /\ RowsOf(products_df, "ProductCode", code) # {}
            /\ LET m == RowOf(products_df, "ProductCode", code)
                   e == RowOf(ecc_products(ecc_data), "ProductCode", code)
                   b == RowOf(bw_products(bw_data), "ProductCode", code)
               IN  m.UnitPrice = IF IsNull(e.UnitPrice) THEN b.UnitPrice ELSE e.UnitPrice

\* C3 amended: for a product of both sources the merged UnitPrice is the
\* mean of the non-null per-source unit prices, the ECC mean and BW's fixed
\* 0: half the ECC mean, or 0 when ECC has no unit price for the product.
C3_ReAveragedUnitPrice ==
    pc = "called" =>
        \A code \in SharedProductCodes :
            /\ Cardinality(RowsOf(products_df, "ProductCode", code)) = 1
            /\ LET m == RowOf(products_df, "ProductCode", code)
                   e == RowOf(ecc_products(ecc_data), "ProductCode", code)
               IN  m.UnitPrice = IF IsNull(e.UnitPrice) THEN Num(0)
                                 ELSE Rat(e.UnitPrice.n, 2 * e.UnitPrice.d)

\* C3 witness: a product of both sources with a non-zero ECC mean price
C3_Witness ==
    /\ pc = "called"
    /\ \E code \in SharedProductCodes :
         /\ RowsOf(products_df, "ProductCode", code) # {}
         /\ LET e == RowOf(ecc_products(ecc_data), "ProductCode", code)
            IN  IsFinite(e.UnitPrice) /\ e.UnitPrice.n > 0

\* C4: when exactly one of the two sources is empty, customer and product
\* reconciliation complete without error and return the rollups of the
\* non-empty source.
C4_EmptySourceTolerated ==
    (pc = "called" /\ ((ecc_data = <<>>) # (bw_data = <<>>))) =>
        /\ error = <<>>
        /\ Len(customers_df.rows) = Cardinality(SourceCustomerIDs)
        /\ Len(products_df.rows) = Cardinality(SourceProductCodes)

\* C5: for a BW sale fact with SalesQuantity = 0, process_sales_data
\* completes without error and the derived UnitPrice of that sale is null
\* (not a number and not an infinite value).
C5_ZeroQuantityNullPrice ==
    pc = "called" =>
        /\ ~Raised("process_sales_data")
        /\ \A i \in 1..Len(sales_df.rows) :
             (sales_df.rows[i].DataSource = "SAP_BW"
                /\ sales_df.rows[i].SalesQuantity = Num(0))
             => IsNull(sales_df.rows[i].UnitPrice)

(***************************************************************************)
(* Properties of the writer and of the pipeline (checked under Spec)       *)
(***************************************************************************)
\* the values of a reconciled row that reach the store as parameters
CustParams(r) ==
    <<r.CustomerID, r.CustomerSegment, r.Region, r.SalesRep, r.TotalOrders,
      r.TotalSalesAmount, r.LastOrderDate>>

ProdParams(r) ==
    <<r.ProductCode, r.ProductCategory, r.UnitPrice, r.TotalQuantitySold,
      r.TotalSalesAmount>>

SaleParams(r) ==
    <<r.CustomerID, r.ProductCode, r.OrderNumber, r.SalesDate, r.SalesAmount,
      r.SalesQuantity, r.UnitPrice, r.Region, r.Channel, r.SalesRep, r.DataSource>>

SameCustomers(f, g) ==
    /\ Len(f.rows) = Len(g.rows)
    /\ \A i \in 1..Len(f.rows) : CustParams(f.rows[i]) = CustParams(g.rows[i])

SameProducts(f, g) ==
    /\ Len(f.rows) = Len(g.rows)
    /\ \A i \in 1..Len(f.rows) : ProdParams(f.rows[i]) = ProdParams(g.rows[i])

SameSales(f, g) ==
    /\ Len(f.rows) = Len(g.rows)
    /\ \A i \in 1..Len(f.rows) : SaleParams(f.rows[i]) = SaleParams(g.rows[i])

\* this run and the latest run committed before it wrote the same
\* customer and product sets
SecondIdenticalWrite ==
    /\ pc = "done"
    /\ SameCustomers(customers_df, last.customers)
    /\ SameProducts(products_df, last.products)

\* C6: running the writer twice with the identical customer and product
\* sets leaves exactly one row per CustomerID and per ProductCode; after the
\* second run every field but UpdatedDate is as after the first run, and
\* UpdatedDate has advanced.
C6_UpsertIdempotent ==
    SecondIdenticalWrite =>
        /\ \A i \in 1..Len(customers_df.rows) :
             LET id == customers_df.rows[i].CustomerID
                 was == Matching(before.Customers, "CustomerID", id)
                 is == Matching(Customers, "CustomerID", id)
             IN  /\ Cardinality(was) = 1
                 /\ Cardinality(is) = 1
                 /\ \A a \in was, b \in is :
                      /\ Customers[b] =
                           [before.Customers[a] EXCEPT
                              !.UpdatedDate = Customers[b].UpdatedDate]
                      /\ Customers[b].UpdatedDate > before.Customers[a].UpdatedDate
        /\ \A i \in 1..Len(products_df.rows) :
             LET code == products_df.rows[i].ProductCode
                 was == Matching(before.Products, "ProductCode", code)
                 is == Matching(Products, "ProductCode", code)
             IN  /\ Cardinality(was) = 1
                 /\ Cardinality(is) = 1
                 /\ \A a \in was, b \in is :
                      /\ Products[b] =
                           [before.Products[a] EXCEPT
                              !.UpdatedDate = Products[b].UpdatedDate]
                      /\ Products[b].UpdatedDate > before.Products[a].UpdatedDate
        /\ Len(Customers) = Len(before.Customers)
        /\ Len(Products) = Len(before.Products)

\* C6 witness: a second write of the same non-empty customer and product
\* sets has committed
C6_Witness ==
    /\ SecondIdenticalWrite
    /\ customers_df.rows # <<>>
    /\ products_df.rows # <<>>

\* the number of rows of a Sales table or frame that carry the fact of r
Copies(rows, r) ==
    Cardinality({i \in 1..Len(rows) : SaleParams(rows[i]) = SaleParams(r)})

\* C7: Sales are append-only and not deduplicated: no run changes or
\* removes an existing row, a successful run adds exactly its reconciled
\* sale facts, and a run over the same window as the run before leaves
\* every fact of the window in the table twice.
C7_SalesAppendOnly ==
    /\ Len(before.Sales) <= Len(Sales)
    /\ SubSeq(Sales, 1, Len(before.Sales)) = before.Sales
    /\ pc = "done" =>
         /\ Len(Sales) = Len(before.Sales) + Len(sales_df.rows)
         /\ \A i \in 1..Len(sales_df.rows) :
              SaleParams(Sales[Len(before.Sales) + i]) = SaleParams(sales_df.rows[i])
    /\ (pc = "done" /\ SameSales(sales_df, last.sales)) =>
         \A i \in 1..Len(sales_df.rows) :
            Copies(Sales, sales_df.rows[i]) >= 2 * Copies(sales_df.rows, sales_df.rows[i])

\* C7 witness: a second run over the same non-empty window has committed
C7_Witness ==
    /\ pc = "done"
    /\ sales_df.rows # <<>>
    /\ SameSales(sales_df, last.sales)

\* a stored date that is earlier than, or lost against, the one before
Earlier(new, old) ==
    /\ old.k = "date"
    /\ new.k = "date" => new.v < old.v

\* C8: across pipeline runs against one store, the stored LastOrderDate of a
\* customer never decreases.
C8_LastOrderDateMonotonic ==
    \A a \in 1..Len(before.Customers), b \in 1..Len(Customers) :
        Customers[b].CustomerID = before.Customers[a].CustomerID
        => ~Earlier(Customers[b].LastOrderDate, before.Customers[a].LastOrderDate)

\* C9: save_processed_data is all-or-nothing: nothing of a call is visible
\* before its single commit, which comes after all three sets were written
\* and publishes them together; if a statement fails none of the call's
\* writes is visible afterwards and the error is propagated.
C9_AllOrNothing ==
    /\ pc = "save" => (conn.open /\ Store = before)
    /\ (pc = "failed" /\ error # <<>>) => (~conn.open /\ Store = before)
    /\ pc = "done" =>
         /\ ~conn.open
         /\ stmt = Len(Statements(customers_df, products_df, sales_df))
         /\ \A i \in 1..Len(customers_df.rows) :
              \E j \in 1..Len(Customers) :
                 CustParams(Customers[j]) = CustParams(customers_df.rows[i])
         /\ \A i \in 1..Len(products_df.rows) :
              \E j \in 1..Len(Products) :
                 ProdParams(Products[j]) = ProdParams(products_df.rows[i])
         /\ Len(Sales) = Len(before.Sales) + Len(sales_df.rows)

\* C9 witness: a statement failed after others of the same call had been
\* executed
C9_Witness ==
    /\ pc = "failed"
    /\ error[1].stage = "save_processed_data"
    /\ 0 < stmt
    /\ stmt < Len(Statements(customers_df, products_df, sales_df))

\* C10: if a stage of process_sap_data fails, no later stage is executed,
\* the store holds no change of that run and the error is raised instead of
\* a summary; a BW read failure after a successful ECC read never leads to
\* a reconciliation or a write.
C10_FailureAborts ==
    /\ (error # <<>>) <=> (pc = "failed")
    /\ pc = "failed" =>
         /\ Len(error) = 1
         /\ summary = <<>>
         /\ Store = before
         /\ ~conn.open
         /\ stages # <<>>
         /\ stages[Len(stages)] = error[1].stage
    /\ (pc = "failed" /\ error[1].stage = "get_raw_sap_bw_data") =>
         /\ stages = <<"get_raw_sap_ecc_data", "get_raw_sap_bw_data">>
         /\ customers_df = EmptyFrame
         /\ products_df = EmptyFrame
         /\ sales_df = EmptyFrame
         /\ stmt = 0
    /\ summary # <<>> => pc = "done"

\* C10 witness: the BW read failed after the ECC read had returned rows
C10_Witness ==
    /\ pc = "failed"
    /\ error[1].stage = "get_raw_sap_bw_data"
    /\ ecc_data # <<>>

\* the stages of process_sap_data, in the order of its body
StageOrder ==
    <<"get_raw_sap_ecc_data", "get_raw_sap_bw_data", "process_customer_data",
      "process_product_data", "process_sales_data", "save_processed_data">>

IsPrefix(s, t) == Len(s) <= Len(t) /\ SubSeq(t, 1, Len(s)) = s

\* C11: in every run the stages happen in the order read ECC, read BW,
\* reconcile customers, products, sales, write, each at most once; the write
\* starts only after the three reconciliations, and the summary is returned
\* only after the write has committed.
C11_StageOrder ==
    /\ IsPrefix(stages, StageOrder)
    /\ pc = "read_ecc" => stages = <<>>
    /\ pc = "read_bw" => stages = SubSeq(StageOrder, 1, 1)
    /\ pc = "customers" => stages = SubSeq(StageOrder, 1, 2)
    /\ pc = "products" => stages = SubSeq(StageOrder, 1, 3)
    /\ pc = "sales" => stages = SubSeq(StageOrder, 1, 4)
    /\ pc = "connect" => stages = SubSeq(StageOrder, 1, 5)
    /\ pc \in {"save", "done"} => stages = StageOrder
    /\ conn.open => pc = "save"
    /\ summary # <<>> =>
         /\ pc = "done"
         /\ ~conn.open
         /\ stmt = Len(Statements(customers_df, products_df, sales_df))
         /\ Len(Sales) = Len(before.Sales) + Len(sales_df.rows)

\* C11 witness: a run that wrote customers, products and sales has returned
\* its summary
C11_Witness ==
    /\ pc = "done"
    /\ summary # <<>>
    /\ customers_df.rows # <<>>
    /\ products_df.rows # <<>>
    /\ sales_df.rows # <<>>


(***************************************************************************)
(* Two concurrent invocations of process_sap_data on one store             *)
(*                                                                         *)
(* The timer trigger and the HTTP trigger both call process_sap_data, and  *)
(* nothing serialises them.  Both read the same source window, so both     *)
(* reconcile the same frames and execute the same statements, each on its  *)
(* own connection.  A transaction's writes stay invisible to the other     *)
(* until conn.commit(); the rows it wrote stay locked until then.  The     *)
(* MERGE carries no HOLDLOCK hint, so its search for a matching row takes  *)
(* no lock on a key that is not there.                                     *)
(***************************************************************************)
\* the statements both invocations execute: those of the frames both have
\* reconciled from the shared window
ConcStatements == Statements(customers_df, products_df, sales_df)

\* the column a MERGE on a table matches on
KeyOf(table) == IF table = "Customers" THEN "CustomerID" ELSE "ProductCode"

\* the keys whose rows an open transaction has written and still locks
HeldKeys(q, table) ==
    {ctx[q][i].st.row[KeyOf(table)] :
        i \in {j \in 1..Len(ctx[q]) : ctx[q][j].st.table = table}}

\* the keys an open transaction has inserted
InsertedKeys(q, table) ==
    {ctx[q][i].st.row[KeyOf(table)] :
        i \in {j \in 1..Len(ctx[q]) :
                 ctx[q][j].st.table = table /\ ctx[q][j].kind = "insert"}}

\* the store a statement of a transaction leaves: an insert adds the row the
\* statement builds, an update rewrites the rows the statement matches
ApplyOp(tables, op) ==
    IF op.kind = "insert"
    THEN [tables EXCEPT
            ![op.st.table] =
                Append(@, Execute(Tables(<<>>, <<>>, <<>>), op.st, op.t)[op.st.table][1])]
    ELSE Execute(tables, op.st, op.t)

RECURSIVE ApplyOps(_, _)
ApplyOps(tables, ops) ==
    IF ops = <<>> THEN tables
    ELSE ApplyOps(ApplyOp(tables, Head(ops)), Tail(ops))

\* the statements of one earlier run over a window, as committed writes
PriorOps(e, b) ==
    LET sts == Statements(process_customer_data(e, b, 0).df,
                          process_product_data(e, b, 0).df,
                          process_sales_data(e, b, 0).df)
    IN  [i \in 1..Len(sts) |-> [kind |-> "update", st |-> sts[i], t |-> 0]]

\* the stores the two invocations can find: empty, or as one earlier run
\* over a BW window left it
PriorStores ==
    {ApplyOps(Tables(<<>>, <<>>, <<>>), PriorOps(<<>>, b)) : b \in BwWindows}

\* both invocations have read the same window and reconciled it
InitConc ==
    /\ pc = "concurrent"
    /\ run = 0
    /\ now = 1
    /\ ecc_data \in EccWindows
    /\ bw_data \in BwWindows \ {<<>>}
    /\ customers_df = process_customer_data(ecc_data, bw_data, now).df
    /\ products_df = process_product_data(ecc_data, bw_data, now).df
    /\ sales_df = process_sales_data(ecc_data, bw_data, now).df
    /\ error = <<>>
    /\ summary = <<>>
    /\ conn = NoConn
    /\ stmt = 0
    /\ \E prior \in PriorStores :
         /\ Customers = prior.Customers
         /\ Products = prior.Products
         /\ Sales = prior.Sales
         /\ before = prior
    /\ last = NoFrames
    /\ stages = <<>>
    /\ cpc = [p \in Procs |-> "connect"]
    /\ cstmt = [p \in Procs |-> 0]
    /\ ctx = [p \in Procs |-> <<>>]
    /\ cerr = [p \in Procs |-> ""]
    /\ NoUpload
    /\ NoInsights
    /\ Deployed

\* with pyodbc.connect(...) as conn, in one invocation
ConcConnect(p) ==
    /\ cpc[p] = "connect"
    /\ cpc' = [cpc EXCEPT ![p] = "save"]
    /\ now' = now + 1
    /\ UNCHANGED <<cstmt, ctx, cerr, Customers, Products, Sales>>
    /\ UNCHANGED seq_vars
    /\ UNCHANGED search_vars
    /\ UNCHANGED insights_vars
    /\ UNCHANGED deploy_vars

\* a MERGE whose key no other open transaction has written: it updates the
\* committed row of the key, or inserts when the store has none
ConcMerge(p) ==
    /\ cpc[p] = "save"
    /\ cstmt[p] < Len(ConcStatements)
    /\ LET st == ConcStatements[cstmt[p] + 1]
       IN  /\ st.table \in {"Customers", "Products"}
           /\ \A q \in Procs \ {p} : st.row[KeyOf(st.table)] \notin HeldKeys(q, st.table)
           /\ ctx' = [ctx EXCEPT ![p] =
                        Append(@, [kind |-> IF Matching(Store[st.table], KeyOf(st.table),
                                                        st.row[KeyOf(st.table)]) # {}
                                            THEN "update" ELSE "insert",
                                   st |-> st, t |-> now])]
    /\ cstmt' = [cstmt EXCEPT ![p] = @ + 1]
    /\ UNCHANGED <<cpc, cerr, now, Customers, Products, Sales>>
    /\ UNCHANGED seq_vars
    /\ UNCHANGED search_vars
    /\ UNCHANGED insights_vars
    /\ UNCHANGED deploy_vars

\* a MERGE whose key the other transaction has inserted and not committed:
\* the search finds no committed row, takes WHEN NOT MATCHED and inserts; on
\* a table without a unique key the insert succeeds
ConcMergeInsertsAgain(p) ==
    /\ cpc[p] = "save"
    /\ cstmt[p] < Len(ConcStatements)
    /\ LET st == ConcStatements[cstmt[p] + 1]
       IN  /\ st.table \in {"Customers", "Products"}
           /\ \E q \in Procs \ {p} : st.row[KeyOf(st.table)] \in InsertedKeys(q, st.table)
           /\ ctx' = [ctx EXCEPT ![p] = Append(@, [kind |-> "insert", st |-> st, t |-> now])]
    /\ cstmt' = [cstmt EXCEPT ![p] = @ + 1]
    /\ UNCHANGED <<cpc, cerr, now, Customers, Products, Sales>>
    /\ UNCHANGED seq_vars
    /\ UNCHANGED search_vars
    /\ UNCHANGED insights_vars
    /\ UNCHANGED deploy_vars

\* the same MERGE on a table with a unique key: the insert waits for the
\* transaction that holds the key
ConcMergeWaits(p) ==
    /\ cpc[p] = "save"
    /\ cstmt[p] < Len(ConcStatements)
    /\ LET st == ConcStatements[cstmt[p] + 1]
       IN  /\ st.table \in {"Customers", "Products"}
           /\ \E q \in Procs \ {p} : st.row[KeyOf(st.table)] \in InsertedKeys(q, st.table)
    /\ cpc' = [cpc EXCEPT ![p] = "waiting"]
    /\ UNCHANGED <<cstmt, ctx, cerr, now, Customers, Products, Sales>>
    /\ UNCHANGED seq_vars
    /\ UNCHANGED search_vars
    /\ UNCHANGED insights_vars
    /\ UNCHANGED deploy_vars

\* the holder has committed the key: the waiting insert violates the unique
\* key, cursor.execute raises, save_processed_data logs and re-raises, and
\* the connection's exit rolls the invocation's statements back
ConcMergeRaises(p) ==
    /\ cpc[p] = "waiting"
    /\ LET st == ConcStatements[cstmt[p] + 1]
       IN  Matching(Store[st.table], KeyOf(st.table), st.row[KeyOf(st.table)]) # {}
    /\ cpc' = [cpc EXCEPT ![p] = "failed"]
    /\ cerr' = [cerr EXCEPT ![p] = "IntegrityError"]
    /\ ctx' = [ctx EXCEPT ![p] = <<>>]
    /\ UNCHANGED <<cstmt, now, Customers, Products, Sales>>
    /\ UNCHANGED seq_vars
    /\ UNCHANGED search_vars
    /\ UNCHANGED insights_vars
    /\ UNCHANGED deploy_vars

\* INSERT INTO Sales: it conflicts with nothing
ConcInsert(p) ==
    /\ cpc[p] = "save"
    /\ cstmt[p] < Len(ConcStatements)
    /\ LET st == ConcStatements[cstmt[p] + 1]
       IN  /\ st.table = "Sales"
           /\ ctx' = [ctx EXCEPT ![p] = Append(@, [kind |-> "insert", st |-> st, t |-> now])]
    /\ cstmt' = [cstmt EXCEPT ![p] = @ + 1]
    /\ UNCHANGED <<cpc, cerr, now, Customers, Products, Sales>>
    /\ UNCHANGED seq_vars
    /\ UNCHANGED search_vars
    /\ UNCHANGED insights_vars
    /\ UNCHANGED deploy_vars

\* conn.commit(): the invocation's writes reach the store
ConcCommit(p) ==
    /\ cpc[p] = "save"
    /\ cstmt[p] = Len(ConcStatements)
    /\ LET after == ApplyOps(Store, ctx[p])
       IN  /\ Customers' = after.Customers
           /\ Products' = after.Products
           /\ Sales' = after.Sales
    /\ cpc' = [cpc EXCEPT ![p] = "done"]
    /\ ctx' = [ctx EXCEPT ![p] = <<>>]
    /\ UNCHANGED <<cstmt, cerr, now>>
    /\ UNCHANGED seq_vars
    /\ UNCHANGED search_vars
    /\ UNCHANGED insights_vars
    /\ UNCHANGED deploy_vars

NextConc ==
    \E p \in Procs :
        \/ ConcConnect(p)
        \/ ConcMerge(p)
        \/ ConcMergeInsertsAgain(p)
        \/ ConcMergeWaits(p)
        \/ ConcMergeRaises(p)
        \/ ConcInsert(p)
        \/ ConcCommit(p)

SpecConc == InitConc /\ [][NextConc]_vars

\* C12: when two runs execute concurrently against the same store over the
\* same source data, in every interleaving both runs complete without
\* error, Customers and Products end with exactly one row per natural key
\* whose values are those one of the runs wrote, and every sale fact of the
\* window ends up in Sales twice.
C12_ConcurrentRunsHarmless ==
    /\ \A p \in Procs : cpc[p] # "failed" /\ cerr[p] = ""
    /\ (\A p \in Procs : cpc[p] = "done") =>
         /\ \A i \in 1..Len(customers_df.rows) :
              LET r == customers_df.rows[i]
                  is == Matching(Customers, "CustomerID", r.CustomerID)
              IN  /\ Cardinality(is) = 1
                  /\ \A a \in is : CustParams(Customers[a]) = CustParams(r)
         /\ \A i \in 1..Len(products_df.rows) :
              LET r == products_df.rows[i]
                  is == Matching(Products, "ProductCode", r.ProductCode)
              IN  /\ Cardinality(is) = 1
                  /\ \A a \in is : ProdParams(Products[a]) = ProdParams(r)
         /\ \A i \in 1..Len(sales_df.rows) :
              Copies(Sales, sales_df.rows[i]) =
                Copies(before.Sales, sales_df.rows[i])
                  + 2 * Copies(sales_df.rows, sales_df.rows[i])

(***************************************************************************)
(* Further properties of the reconciliation (checked under SpecRecon)      *)
(***************************************************************************)
\* the two sources both name customers and share none
DisjointCustomers ==
    /\ IdsOf(ecc_data, "CustomerID") # {}
    /\ IdsOf(bw_data, "CustomerID") # {}
    /\ SharedCustomerIDs = {}

\* the fields of a customer row the merge carries
CustFields(r) ==
    <<r.TotalOrders, r.TotalSalesAmount, r.LastOrderDate, r.Region, r.SalesRep,
      r.CustomerSegment>>

\* C13: for non-empty ECC and BW customer inputs that share no CustomerID,
\* the merged customer set is the union of the two per-source rollups, and
\* each customer's TotalOrders, TotalSalesAmount, LastOrderDate, Region,
\* SalesRep and CustomerSegment are those of its single per-source rollup.
C13_DisjointUnion ==
    (pc = "called" /\ DisjointCustomers) =>
        /\ ~Raised("process_customer_data")
        /\ IdsOf(customers_df.rows, "CustomerID") = SourceCustomerIDs
        /\ Len(customers_df.rows) = Cardinality(SourceCustomerIDs)
        /\ \A id \in IdsOf(ecc_data, "CustomerID") :
             CustFields(RowOf(customers_df, "CustomerID", id)) =
               CustFields(RowOf(ecc_customers(ecc_data), "CustomerID", id))
        /\ \A id \in IdsOf(bw_data, "CustomerID") :
             CustFields(RowOf(customers_df, "CustomerID", id)) =
               CustFields(RowOf(bw_customers(bw_data), "CustomerID", id))

\* C13 witness: disjoint customers of both sources have been merged, one of
\* them an ECC customer with orders
C13_Witness ==
    /\ pc = "called"
    /\ DisjointCustomers
    /\ Len(customers_df.rows) >= 2
    /\ \E id \in IdsOf(ecc_data, "CustomerID") :
         RowOf(customers_df, "CustomerID", id).TotalOrders.n > 0

\* the positions of the records of a source that carry a value of a field
\* for a key
Carrying(data, key, kv, field) ==
    {i \in 1..Len(data) : data[i][key] = kv /\ data[i][field] # None}

\* the first non-null value of a field among the records of a key, in the
\* order the records were read
FirstRead(data, key, kv, field) ==
    IF Carrying(data, key, kv, field) = {} THEN None
    ELSE data[CHOOSE i \in Carrying(data, key, kv, field) :
                \A j \in Carrying(data, key, kv, field) : i <= j][field]

\* C14: given an empty ECC input and a non-empty BW input,
\* process_product_data succeeds and every resulting product has
\* UnitPrice = 0 and ProductCategory equal to the first non-null category
\* among that product's BW records.
C14_BwOnlyProducts ==
    (pc = "called" /\ ecc_data = <<>> /\ bw_data # <<>>) =>
        /\ ~Raised("process_product_data")
        /\ IdsOf(products_df.rows, "ProductCode") = IdsOf(bw_data, "ProductCode")
        /\ Len(products_df.rows) = Cardinality(IdsOf(bw_data, "ProductCode"))
        /\ \A i \in 1..Len(products_df.rows) :
             /\ products_df.rows[i].UnitPrice = Num(0)
             /\ products_df.rows[i].ProductCategory =
                  FirstRead(bw_data, "ProductCode", products_df.rows[i].ProductCode,
                            "ProductCategory")

\* C14 witness: a BW-only product whose first record has no category and
\* whose later record has one
C14_Witness ==
    /\ pc = "called"
    /\ ecc_data = <<>>
    /\ \E i \in 1..Len(products_df.rows) :
         /\ products_df.rows[i].ProductCategory # None
         /\ \E j \in 1..Len(bw_data) :
              /\ bw_data[j].ProductCode = products_df.rows[i].ProductCode
              /\ bw_data[j].ProductCategory = None
              /\ \A k \in Carrying(bw_data, "ProductCode",
                                   products_df.rows[i].ProductCode, "ProductCategory") :
                   j < k

(***************************************************************************)
(* Further properties of the pipeline (checked under Spec)                 *)
(***************************************************************************)
\* both sources have been read and both returned no record
BothSourcesEmpty ==
    /\ pc \in {"customers", "products", "sales", "connect", "save", "done", "failed"}
    /\ Len(stages) >= 2
    /\ error = <<>> \/ error[1].stage \notin {"get_raw_sap_ecc_data", "get_raw_sap_bw_data"}
    /\ ecc_data = <<>>
    /\ bw_data = <<>>

\* C15: when both sources are empty, each of the three reconciliations
\* returns an empty set without error, the writer issues no upsert and no
\* insert (the store is unchanged), and process_sap_data returns a success
\* summary reporting 0 customers, 0 products and 0 sales.
C15_BothEmpty ==
    BothSourcesEmpty =>
        /\ \A i \in 1..Len(error) :
             error[i].stage \notin {"process_customer_data", "process_product_data",
                                    "process_sales_data"}
        /\ customers_df.rows = <<>>
        /\ products_df.rows = <<>>
        /\ sales_df.rows = <<>>
        /\ Statements(customers_df, products_df, sales_df) = <<>>
        /\ stmt = 0
        /\ conn.open => conn.tables = before
        /\ Store = before
        /\ pc = "done" =>
             summary = <<[customers |-> 0, products |-> 0, sales |-> 0]>>

\* C15 witness: a run over two empty sources has returned its summary on a
\* store that an earlier run filled
C15_Witness ==
    /\ BothSourcesEmpty
    /\ pc = "done"
    /\ summary # <<>>
    /\ before.Customers # <<>>
    /\ before.Sales # <<>>

\* the first non-null of the ECC value and the BW value, ECC before BW
EccBeforeBw(e, b) == IF e # None THEN e ELSE b

\* C16: for a customer of both sources, Region and SalesRep are the ECC
\* rollup's value when that is non-null and otherwise the BW rollup's, and
\* CustomerSegment, which ECC does not carry, is the BW rollup's; the
\* category of a product is likewise the BW rollup's; within one source the
\* value is the first non-null one in the order the records were read; the
\* merged value is null only when every record of both sources has it null.
C16_FirstWins ==
    pc = "called" =>
        /\ \A id \in SharedCustomerIDs :
             /\ RowsOf(customers_df, "CustomerID", id) # {}
             /\ LET m == RowOf(customers_df, "CustomerID", id)
                IN  /\ m.Region = EccBeforeBw(FirstRead(ecc_data, "CustomerID", id, "Region"),
                                              FirstRead(bw_data, "CustomerID", id, "Region"))
                    /\ m.SalesRep = EccBeforeBw(FirstRead(ecc_data, "CustomerID", id, "SalesRep"),
                                                FirstRead(bw_data, "CustomerID", id, "SalesRep"))
                    /\ m.CustomerSegment =
                         FirstRead(bw_data, "CustomerID", id, "CustomerSegment")
                    /\ m.Region = None <=>
                         /\ Carrying(ecc_data, "CustomerID", id, "Region") = {}
                         /\ Carrying(bw_data, "CustomerID", id, "Region") = {}
                    /\ m.SalesRep = None <=>
                         /\ Carrying(ecc_data, "CustomerID", id, "SalesRep") = {}
                         /\ Carrying(bw_data, "CustomerID", id, "SalesRep") = {}
                    /\ m.CustomerSegment = None <=>
                         Carrying(bw_data, "CustomerID", id, "CustomerSegment") = {}
        /\ \A i \in 1..Len(products_df.rows) :
             LET m == products_df.rows[i]
             IN  /\ m.ProductCategory =
                      FirstRead(bw_data, "ProductCode", m.ProductCode, "ProductCategory")
                 /\ m.ProductCategory = None <=>
                      Carrying(bw_data, "ProductCode", m.ProductCode, "ProductCategory") = {}

\* C16 witness: one customer of both sources takes its Region from ECC
\* although BW has another, and one takes it from BW because ECC has none
C16_Witness ==
    /\ pc = "called"
    /\ \E id \in SharedCustomerIDs :
         /\ FirstRead(ecc_data, "CustomerID", id, "Region") # None
         /\ FirstRead(bw_data, "CustomerID", id, "Region") # None
         /\ FirstRead(ecc_data, "CustomerID", id, "Region")
              # FirstRead(bw_data, "CustomerID", id, "Region")
         /\ RowsOf(customers_df, "CustomerID", id) # {}
    /\ \E id \in SharedCustomerIDs :
         /\ FirstRead(ecc_data, "CustomerID", id, "Region") = None
         /\ RowsOf(customers_df, "CustomerID", id) # {}
         /\ RowOf(customers_df, "CustomerID", id).Region # None

\* the ECC order lines of a customer
EccLines(id) == {i \in 1..Len(ecc_data) : ecc_data[i].CustomerID = id}

\* C17: the per-source order count is, for ECC, the number of ECC order
\* lines of the customer (every line counts, including a line whose
\* OrderNumber is null) and, for BW, always 0; hence a BW-only customer has
\* TotalOrders = 0 and an ECC customer with n order lines has
\* TotalOrders = n.
C17_EveryLineCounts ==
    (pc = "called" /\ ~Raised("process_customer_data")) =>
        /\ \A i \in 1..Len(ecc_customers(ecc_data).rows) :
             LET r == ecc_customers(ecc_data).rows[i]
             IN  r.TotalOrders = Num(Cardinality(EccLines(r.CustomerID)))
        /\ \A i \in 1..Len(bw_customers(bw_data).rows) :
             bw_customers(bw_data).rows[i].TotalOrders = Num(0)
        /\ \A i \in 1..Len(customers_df.rows) :
             LET r == customers_df.rows[i]
             IN  r.TotalOrders = Num(Cardinality(EccLines(r.CustomerID)))

\* C18: sale reconciliation never merges or drops rows: the output of
\* process_sales_data has one row per input record, the ECC records' rows
\* first and the BW records' rows after them; a row of an ECC record has
\* DataSource SAP_ECC and Channel "Direct", a row of a BW record has
\* DataSource SAP_BW, a null OrderNumber and the record's own Channel.
C18_SalesRelabelled ==
    pc = "called" =>
        /\ ~Raised("process_sales_data")
        /\ Len(sales_df.rows) = Len(ecc_data) + Len(bw_data)
        /\ \A i \in 1..Len(ecc_data) :
             LET r == sales_df.rows[i]
             IN  /\ r.DataSource = "SAP_ECC"
                 /\ r.Channel = "Direct"
                 /\ r.CustomerID = ecc_data[i].CustomerID
                 /\ r.ProductCode = ecc_data[i].ProductCode
                 /\ r.OrderNumber = ecc_data[i].OrderNumber
                 /\ r.SalesDate = ecc_data[i].OrderDate
                 /\ r.SalesAmount = ecc_data[i].TotalAmount
                 /\ r.SalesQuantity = ecc_data[i].Quantity
        /\ \A i \in 1..Len(bw_data) :
             LET r == sales_df.rows[Len(ecc_data) + i]
             IN  /\ r.DataSource = "SAP_BW"
                 /\ r.OrderNumber = None
                 /\ r.Channel = bw_data[i].Channel
                 /\ r.CustomerID = bw_data[i].CustomerID
                 /\ r.ProductCode = bw_data[i].ProductCode
                 /\ r.SalesDate = bw_data[i].SalesDate
                 /\ r.SalesAmount = bw_data[i].SalesAmount
                 /\ r.SalesQuantity = bw_data[i].SalesQuantity

\* C18 witness: records of both sources, two of the BW records identical,
\* have been relabelled
C18_Witness ==
    /\ pc = "called"
    /\ ecc_data # <<>>
    /\ Len(bw_data) >= 2
    /\ bw_data[1] = bw_data[2]
    /\ Len(sales_df.rows) = Len(ecc_data) + Len(bw_data)

\* a number that is not below zero (a null is no number and is let through)
NonNegative(x) == IsNull(x) \/ x.n >= 0

\* C19: numeric non-negativity is preserved for every source input: every
\* reconciled customer has TotalOrders >= 0 and TotalSalesAmount >= 0, every
\* reconciled product has UnitPrice >= 0, TotalQuantitySold >= 0 and
\* TotalSalesAmount >= 0, and every sale row handed to the writer has
\* SalesAmount >= 0 and SalesQuantity >= 0.
C19_NonNegative ==
    pc = "called" =>
        /\ \A i \in 1..Len(customers_df.rows) :
             /\ NonNegative(customers_df.rows[i].TotalOrders)
             /\ NonNegative(customers_df.rows[i].TotalSalesAmount)
        /\ \A i \in 1..Len(products_df.rows) :
             /\ NonNegative(products_df.rows[i].UnitPrice)
             /\ NonNegative(products_df.rows[i].TotalQuantitySold)
             /\ NonNegative(products_df.rows[i].TotalSalesAmount)
        /\ \A i \in 1..Len(sales_df.rows) :
             /\ NonNegative(sales_df.rows[i].SalesAmount)
             /\ NonNegative(sales_df.rows[i].SalesQuantity)

(***************************************************************************)
(* AISearchService.upload_documents                                        *)
(*                                                                         *)
(* A document is one record of the frames read for the index; of its       *)
(* fields the model keeps the id, a datetime field and a float field, the  *)
(* two kinds of value the loop converts before it sends a batch.  The      *)
(* documents the service reports as failed are only logged, so the result  *)
(* of a batch does not change what the loop does next.                     *)
(***************************************************************************)
\* the size of a batch
batch_size == 1000

\* the longest list of documents uploaded
MaxDocs == 2500

\* the lengths of the lists uploaded: the multiples of 50 and the lengths
\* one short of and one past a multiple of batch_size
DocCounts ==
    {n \in 0..MaxDocs : n % 50 = 0 \/ n % batch_size \in {1, batch_size - 1}}

\* the k-th document as read from the store
Document(k) ==
    [id |-> k,
     timestamp |-> Date(k % 3),
     sales_quantity |-> IF k % 2 = 0 THEN NaN ELSE Num(1)]

\* value.isoformat()
isoformat(value) == [k |-> "str", v |-> value.v]

\* the conversion of one document: a datetime becomes its ISO string, a NaN
\* becomes None
Converted(doc) ==
    [id |-> doc.id,
     timestamp |-> IF doc.timestamp.k = "date" THEN isoformat(doc.timestamp)
                   ELSE doc.timestamp,
     sales_quantity |-> IF doc.sales_quantity.k = "nan" THEN None
                        ELSE doc.sales_quantity]

Min(a, b) == IF a <= b THEN a ELSE b

\* a slice that leaves out the last document it covers
Slice_short(list, from, to) == SubSeq(list, from + 1, Min(to, Len(list)) - 1)

\* list[from:to]
Slice(list, from, to) == SubSeq(list, from + 1, Min(to, Len(list)))

other_vars ==
    <<seq_vars, now, Customers, Products, Sales, conc_vars, deploy_vars,
      insights_vars>>

\* the variables upload_documents leaves alone
other_vars_upload == <<other_vars, update_vars>>

\* upload_documents(documents) is called
InitUpload ==
    /\ pc = "upload"
    /\ run = 0
    /\ now = 1
    /\ ecc_data = <<>>
    /\ bw_data = <<>>
    /\ customers_df = EmptyFrame
    /\ products_df = EmptyFrame
    /\ sales_df = EmptyFrame
    /\ error = <<>>
    /\ summary = <<>>
    /\ conn = NoConn
    /\ stmt = 0
    /\ Customers = <<>>
    /\ Products = <<>>
    /\ Sales = <<>>
    /\ before = Tables(<<>>, <<>>, <<>>)
    /\ last = NoFrames
    /\ stages = <<>>
    /\ NoConc
    /\ Deployed
    /\ \E n \in DocCounts : documents = [k \in 1..n |-> Document(k)]
    /\ batch_start = 0
    /\ batches = <<>>
    /\ upc = "client"
    /\ index = {}
    /\ rejected = {}
    /\ NoUpdate
    /\ NoInsights

\* get_ai_search_credentials and SearchClient(...) succeed
CreateSearchClient ==
    /\ upc = "client"
    /\ upc' = "loop"
    /\ UNCHANGED <<documents, batch_start, batches, index, rejected>>
    /\ UNCHANGED other_vars_upload

\* they raise: the except clause logs and returns False
CreateSearchClientFails ==
    /\ upc = "client"
    /\ upc' = "False"
    /\ UNCHANGED <<documents, batch_start, batches, index, rejected>>
    /\ UNCHANGED other_vars_upload

\* the documents list after the loop has converted, in place, the documents
\* of the batch that starts at from
ConvertedInPlace(list, from) ==
    [k \in 1..Len(list) |->
       IF k > from /\ k <= from + batch_size THEN Converted(list[k]) ELSE list[k]]

\* the documents of a batch the index service may report as not succeeded:
\* none of them, or the first one
Rejections(batch) == {{}} \cup {{batch[k].id} : k \in 1..Min(1, Len(batch))}

\* one pass of the loop: slice the batch, convert its documents in place,
\* send it; the documents the service reports as failed are logged and the
\* loop goes on
UploadBatch ==
    /\ upc = "loop"
    /\ batch_start < Len(documents)
    /\ LET batch == Slice(documents, batch_start, batch_start + batch_size)
           sent == [k \in 1..Len(batch) |-> Converted(batch[k])]
       IN  /\ batches' = Append(batches, sent)
           /\ \E failed_docs \in Rejections(batch) :
                /\ index' = index \cup ({sent[k].id : k \in 1..Len(sent)} \ failed_docs)
                /\ rejected' = rejected \cup failed_docs
    /\ documents' = ConvertedInPlace(documents, batch_start)
    /\ batch_start' = batch_start + batch_size
    /\ UNCHANGED upc
    /\ UNCHANGED other_vars_upload

\* a loop that logs the batch call that raised and goes on with the next
UploadBatchFails_continue ==
    /\ upc = "loop"
    /\ batch_start < Len(documents)
    /\ documents' = ConvertedInPlace(documents, batch_start)
    /\ batch_start' = batch_start + batch_size
    /\ UNCHANGED <<upc, batches, index, rejected>>
    /\ UNCHANGED other_vars_upload

\* search_client.upload_documents raises: the batch, already converted,
\* does not reach the index; the except clause logs and returns False
UploadBatchFails ==
    /\ upc = "loop"
    /\ batch_start < Len(documents)
    /\ upc' = "False"
    /\ documents' = ConvertedInPlace(documents, batch_start)
    /\ UNCHANGED <<batch_start, batches, index, rejected>>
    /\ UNCHANGED other_vars_upload

\* range(0, len(documents), batch_size) is exhausted: return True
UploadReturns ==
    /\ upc = "loop"
    /\ batch_start >= Len(documents)
    /\ upc' = "True"
    /\ UNCHANGED <<documents, batch_start, batches, index, rejected>>
    /\ UNCHANGED other_vars_upload

NextUpload ==
    \/ CreateSearchClient
    \/ CreateSearchClientFails
    \/ UploadBatch
    \/ UploadBatchFails
    \/ UploadReturns

SpecUpload == InitUpload /\ [][NextUpload]_vars

\* ceil(n / batch_size)
BatchesFor(n) == (n + batch_size - 1) \div batch_size

\* C20: upload_documents splits a list of N documents into consecutive
\* batches in list order, each of at most 1000 documents and all but the
\* last of exactly 1000; a call that returns True has sent ceil(N/1000)
\* batches and every document in exactly one of them (the document at list
\* position d is at its place in the batches, and no place of the batches
\* holds another position's document); 2500 documents are uploaded as three
\* batches of 1000, 1000 and 500.
C20_Batches ==
    /\ \A b \in 1..Len(batches) :
         /\ Len(batches[b]) >= 1
         /\ Len(batches[b]) <= 1000
         /\ b < BatchesFor(Len(documents)) => Len(batches[b]) = 1000
         /\ \A k \in 1..Len(batches[b]) :
              /\ (b - 1) * 1000 + k <= Len(documents)
              /\ batches[b][k].id = (b - 1) * 1000 + k
              /\ batches[b][k] = documents[(b - 1) * 1000 + k]
    /\ Len(batches) <= BatchesFor(Len(documents))
    /\ upc = "True" =>
         /\ Len(batches) = BatchesFor(Len(documents))
         /\ \A d \in 1..Len(documents) :
              LET b == ((d - 1) \div 1000) + 1
                  k == ((d - 1) % 1000) + 1
              IN  /\ b <= Len(batches)
                  /\ k <= Len(batches[b])
                  /\ batches[b][k].id = d
    /\ (upc = "True" /\ Len(documents) = 2500) =>
         /\ Len(batches) = 3
         /\ Len(batches[1]) = 1000
         /\ Len(batches[2]) = 1000
         /\ Len(batches[3]) = 500

\* C20 witness: 2500 documents have been uploaded and the call has returned
\* True
C20_Witness ==
    /\ upc = "True"
    /\ Len(documents) = 2500
    /\ Len(batches) = 3

(***************************************************************************)
(* AISearchService.update_search_index                                     *)
(*                                                                         *)
(* create_search_index, clear_index, the three get_*_documents readers and *)
(* upload_documents each catch every exception they meet: the first two    *)
(* and the upload return False, a reader returns the empty list.  The      *)
(* index holds at most one batch of documents here, so clear_index deletes *)
(* it with one delete_documents call.                                      *)
(***************************************************************************)
\* the pipeline at rest while another entry point runs
PipelineAtRest(at) ==
    /\ pc = at
    /\ run = 0
    /\ now = 1
    /\ ecc_data = <<>>
    /\ bw_data = <<>>
    /\ customers_df = EmptyFrame
    /\ products_df = EmptyFrame
    /\ sales_df = EmptyFrame
    /\ error = <<>>
    /\ summary = <<>>
    /\ conn = NoConn
    /\ stmt = 0
    /\ Customers = <<>>
    /\ Products = <<>>
    /\ Sales = <<>>
    /\ before = Tables(<<>>, <<>>, <<>>)
    /\ last = NoFrames
    /\ stages = <<>>
    /\ Deployed

\* the documents the three readers find in the store
StoredDocs ==
    [customers : {<<>>, <<Document(1)>>},
     sales : {<<>>, <<Document(11)>>, <<Document(11), Document(12)>>},
     products : {<<>>, <<Document(21)>>}]

\* what the index holds when the update starts: nothing, or the documents
\* of an earlier update, one of which the store no longer has
IndexedBefore == {{}, {1, 11, 99}}

\* the position that follows each reader, in the order update_search_index
\* calls them
AfterReader(kind) ==
    IF kind = "customers" THEN "sales"
    ELSE IF kind = "sales" THEN "products" ELSE "upload"

Return(text) == <<[text |-> text]>>

ReturnCount(text, n) == <<[text |-> text, count |-> n]>>

\* update_search_index is called
InitIndex ==
    /\ PipelineAtRest("update_search_index")
    /\ NoConc
    /\ documents = <<>>
    /\ batch_start = 0
    /\ batches = <<>>
    /\ upc = "idle"
    /\ index \in IndexedBefore
    /\ rejected = {}
    /\ ipc = "create"
    /\ all_documents = <<>>
    /\ stored_docs \in StoredDocs
    /\ trace = <<>>
    /\ returned = <<>>
    /\ deleted = {}
    /\ NoInsights

\* the variables a step of update_search_index outside the upload leaves
\* alone
other_vars_update ==
    <<other_vars, documents, batch_start, batches, upc, rejected, stored_docs>>

\* create_search_index returns True
CreateIndex ==
    /\ ipc = "create"
    /\ ipc' = "clear"
    /\ trace' = Append(trace, "created")
    /\ UNCHANGED <<index, all_documents, returned>>
    /\ UNCHANGED other_vars_update
    /\ UNCHANGED deleted

\* create_search_index returns False
CreateIndexFails ==
    /\ ipc = "create"
    /\ ipc' = "returned"
    /\ trace' = Append(trace, "create_failed")
    /\ returned' = Return("Failed to create/update search index")
    /\ UNCHANGED <<index, all_documents>>
    /\ UNCHANGED other_vars_update
    /\ UNCHANGED deleted

\* clear_index returns True: every document found has been deleted
ClearIndex ==
    /\ ipc = "clear"
    /\ index' = {}
    /\ deleted' = index
    /\ ipc' = "customers"
    /\ trace' = Append(trace, "cleared")
    /\ UNCHANGED <<all_documents, returned>>
    /\ UNCHANGED other_vars_update

\* a clear that reports failure and lets the update go on
ClearIndexFails_ignored ==
    /\ ipc = "clear"
    /\ ipc' = "customers"
    /\ trace' = Append(trace, "clear_failed")
    /\ UNCHANGED <<index, all_documents, returned>>
    /\ UNCHANGED other_vars_update
    /\ UNCHANGED deleted

\* clear_index returns False: the credentials, the search or the delete
\* raised; a delete that raised may or may not have been applied
ClearIndexFails ==
    /\ ipc = "clear"
    /\ index' \in {index, {}}
    /\ deleted' = index \ index'
    /\ ipc' = "returned"
    /\ trace' = Append(trace, "clear_failed")
    /\ returned' = Return("Failed to clear existing documents")
    /\ UNCHANGED all_documents
    /\ UNCHANGED other_vars_update

\* get_customer_documents, get_sales_documents, get_product_documents: the
\* records of the store, appended to all_documents
GetDocuments(kind) ==
    /\ ipc = kind
    /\ all_documents' = all_documents \o stored_docs[kind]
    /\ ipc' = AfterReader(kind)
    /\ trace' = Append(trace, "read")
    /\ UNCHANGED <<index, returned>>
    /\ UNCHANGED other_vars_update
    /\ UNCHANGED deleted

\* a reader whose exception reaches update_search_index and ends the call
GetDocumentsFails_raised(kind) ==
    /\ ipc = kind
    /\ ipc' = "returned"
    /\ trace' = Append(trace, "read_failed")
    /\ returned' = Return("Error updating search index")
    /\ UNCHANGED <<index, all_documents>>
    /\ UNCHANGED other_vars_update
    /\ UNCHANGED deleted

\* a reader whose connection or query raises logs and returns []
GetDocumentsFails(kind) ==
    /\ ipc = kind
    /\ ipc' = AfterReader(kind)
    /\ trace' = Append(trace, "read_failed")
    /\ UNCHANGED <<index, all_documents, returned>>
    /\ UNCHANGED other_vars_update
    /\ UNCHANGED deleted

\* if all_documents: self.upload_documents(all_documents)
CallUploadDocuments ==
    /\ ipc = "upload"
    /\ all_documents # <<>>
    /\ documents' = all_documents
    /\ batch_start' = 0
    /\ batches' = <<>>
    /\ upc' = "client"
    /\ ipc' = "uploading"
    /\ trace' = Append(trace, "upload_called")
    /\ UNCHANGED <<index, rejected, all_documents, stored_docs, returned, deleted>>
    /\ UNCHANGED other_vars

\* else: return "No documents found to upload"
NoDocumentsFound ==
    /\ ipc = "upload"
    /\ all_documents = <<>>
    /\ ipc' = "returned"
    /\ returned' = Return("No documents found to upload")
    /\ UNCHANGED <<index, all_documents, trace>>
    /\ UNCHANGED other_vars_update
    /\ UNCHANGED deleted

\* upload_documents returned True
UploadSucceeded ==
    /\ ipc = "uploading"
    /\ upc = "True"
    /\ ipc' = "returned"
    /\ returned' = ReturnCount("Successfully updated search index with documents",
                               Len(all_documents))
    /\ UNCHANGED <<index, all_documents, trace>>
    /\ UNCHANGED other_vars_update
    /\ UNCHANGED deleted

\* upload_documents returned False
UploadFailed ==
    /\ ipc = "uploading"
    /\ upc = "False"
    /\ ipc' = "returned"
    /\ returned' = Return("Failed to upload documents to search index")
    /\ UNCHANGED <<index, all_documents, trace>>
    /\ UNCHANGED other_vars_update
    /\ UNCHANGED deleted

NextIndex ==
    \/ CreateIndex
    \/ CreateIndexFails
    \/ ClearIndex
    \/ ClearIndexFails
    \/ \E kind \in {"customers", "sales", "products"} : GetDocuments(kind)
    \/ \E kind \in {"customers", "sales", "products"} : GetDocumentsFails(kind)
    \/ CallUploadDocuments
    \/ NoDocumentsFound
    \/ CreateSearchClient
    \/ CreateSearchClientFails
    \/ UploadBatch
    \/ UploadBatchFails
    \/ UploadReturns
    \/ UploadSucceeded
    \/ UploadFailed

SpecIndex == InitIndex /\ [][NextIndex]_vars

\* the outcomes update_search_index has had after its first n steps
Steps(n) == SubSeq(trace, 1, Min(n, Len(trace)))

\* C21: update_search_index creates or updates the index definition, then
\* clears the index, then reads the documents and uploads them, in that
\* order; if the creation fails neither clear nor upload is performed, if
\* the clear fails no upload is performed, and documents are uploaded only
\* into an index that was created and cleared in the same invocation.
C21_CreateClearUpload ==
    /\ \A n \in 1..Len(trace) :
         /\ trace[n] \in {"created", "create_failed"} <=> n = 1
         /\ trace[n] \in {"cleared", "clear_failed"} <=> n = 2
         /\ trace[n] \in {"read", "read_failed"} <=> n \in {3, 4, 5}
         /\ trace[n] = "upload_called" <=> n = 6
    /\ (upc # "idle" \/ batches # <<>> \/ documents # <<>>) =>
         /\ Steps(2) = <<"created", "cleared">>
         /\ Len(trace) = 6
    /\ Steps(1) = <<"create_failed">> =>
         /\ Len(trace) = 1
         /\ ipc = "returned"
         /\ all_documents = <<>>
    /\ (Len(trace) >= 2 /\ trace[2] = "clear_failed") =>
         /\ Len(trace) = 2
         /\ ipc = "returned"
         /\ all_documents = <<>>
    /\ Len(trace) >= 2 /\ trace[2] = "cleared" =>
         index \subseteq {all_documents[k].id : k \in 1..Len(all_documents)}

\* C21 witness: an update of an index that held documents has created,
\* cleared, read and uploaded, and the index holds the documents read
C21_Witness ==
    /\ ipc = "returned"
    /\ Len(trace) = 6
    /\ index # {}
    /\ 99 \notin index
    /\ Len(batches) = 1

\* a step of the index update has failed
UpdateStepFailed ==
    \/ \E n \in 1..Len(trace) : trace[n] \in {"create_failed", "clear_failed", "read_failed"}
    \/ upc = "False"

\* C22: a failure inside the index update (index create, clear or upload
\* failure, store read failure) is not raised to the caller: it makes
\* update_search_index return a failure string that differs from the
\* success summary.
C22_FailureString ==
    (ipc = "returned" /\ UpdateStepFailed) =>
        /\ Len(returned) = 1
        /\ returned[1].text # "Successfully updated search index with documents"

(***************************************************************************)
(* Spec: what the invokers make of the run's outcome                       *)
(***************************************************************************)
\* the invoker has answered the run that has just ended
Answered == pc \in {"done", "failed"} /\ response # NoResponse

\* C23: a failure of process_sap_data is surfaced by its invokers and never
\* swallowed: the HTTP trigger answers 500 exactly when process_sap_data
\* raised and 200 with the summary exactly when it returned, and the timer
\* trigger logs the error and raises it again
C23_FailureSurfaced ==
    /\ response # NoResponse => pc \in {"done", "failed"}
    /\ Answered /\ trigger = "http" =>
           /\ response.status_code = 500 <=> pc = "failed"
           /\ response.status_code = 200 /\ response.body = summary <=> pc = "done"
           /\ pc = "failed" => response.body = error /\ response.logged = error
           /\ response.raised = ""
    /\ Answered /\ trigger = "timer" =>
           /\ pc = "failed" => /\ response.logged = error
                               /\ response.raised = error[1].exc
                               /\ response.raised # ""
           /\ pc = "done" => response.raised = "" /\ response.logged = summary

\* the HTTP trigger has answered 500 for a run that failed while saving
C23_Witness ==
    /\ trigger = "http"
    /\ pc = "failed"
    /\ response.status_code = 500
    /\ error[1].stage = "save_processed_data"

(***************************************************************************)
(* SpecDeploy: the pipeline under every configuration of the deployment    *)
(***************************************************************************)
\* which of PROCESSED_SQL_CONNECTION_STRING, SQL_CONNECTION_STRING and
\* KEY_VAULT_URL are set
Configs == [processed : BOOLEAN, raw : BOOLEAN, vault : BOOLEAN]

InitDeploy ==
    /\ pc = "idle"
    /\ run = 0
    /\ now = 1
    /\ ecc_data = <<>>
    /\ bw_data = <<>>
    /\ customers_df = EmptyFrame
    /\ products_df = EmptyFrame
    /\ sales_df = EmptyFrame
    /\ error = <<>>
    /\ summary = <<>>
    /\ conn = NoConn
    /\ stmt = 0
    /\ Customers = <<>>
    /\ Products = <<>>
    /\ Sales = <<>>
    /\ before = Tables(<<>>, <<>>, <<>>)
    /\ last = NoFrames
    /\ stages = <<>>
    /\ NoConc
    /\ NoUpload
    /\ NoInsights
    /\ trigger = "timer"
    /\ response = NoResponse
    /\ config \in Configs
    /\ via = NoVia

SpecDeploy == InitDeploy /\ [][Next]_vars

\* neither SQL_CONNECTION_STRING nor a secret client: the readers have
\* nothing to connect with
Unresolvable == ~config.raw /\ ~config.vault

\* C24: when no connection string can be resolved, the first operation of a
\* run that needs a connection raises the configuration error before any
\* query or write is issued, the run does not try again, and nothing is
\* written to the analytical store
C24_ConfigurationError ==
    Unresolvable =>
        /\ pc \in {"idle", "read_ecc", "failed"}
        /\ Len(stages) <= 1
        /\ pc = "failed" =>
               /\ stages = <<"get_raw_sap_ecc_data">>
               /\ error = <<Exc("get_raw_sap_ecc_data", "ValueError")>>
        /\ via = NoVia
        /\ ecc_data = <<>> /\ bw_data = <<>>
        /\ conn = NoConn /\ stmt = 0
        /\ Store = Tables(<<>>, <<>>, <<>>)
        /\ Answered => IF trigger = "http" THEN response.status_code = 500
                       ELSE response.raised = "ValueError"

\* a run with nothing configured at all has failed with the ValueError
C24_Witness ==
    /\ config = [processed |-> FALSE, raw |-> FALSE, vault |-> FALSE]
    /\ pc = "failed"
    /\ error[1].exc = "ValueError"
    /\ run = 1

\* what a reader connects with under the configuration
ReaderString ==
    IF config.raw THEN "SQL_CONNECTION_STRING" ELSE "sql-connection-string"

\* C30: get_connection_string resolves in a fixed precedence: the
\* processed-store string when it is asked for and set, else the raw-source
\* string when set, else the vault secret, else a ValueError; so with the
\* processed-store string unset and the raw-source string set the writer
\* does not fail for want of a connection string but writes the three
\* tables through the raw-source connection, and the readers never use the
\* processed-store string
C30_Precedence ==
    /\ via.ecc # "" => via.ecc = ReaderString /\ (config.raw \/ config.vault)
    /\ via.bw # "" => via.bw = ReaderString /\ (config.raw \/ config.vault)
    /\ via.save # "" =>
           via.save = IF config.processed THEN "PROCESSED_SQL_CONNECTION_STRING"
                      ELSE ReaderString
    /\ via.save # "" /\ ~config.processed => config.raw \/ config.vault
    /\ pc \in {"save", "commit", "done"} => via.save # "" /\ via.ecc # "" /\ via.bw # ""
    /\ pc = "failed" /\ error[1].exc = "ValueError" =>
           /\ Unresolvable
           /\ error[1].stage = "get_raw_sap_ecc_data"
    /\ ~config.processed /\ config.raw /\ pc = "done" =>
           /\ via.save = "SQL_CONNECTION_STRING"
           /\ IdsOf(customers_df.rows, "CustomerID") \subseteq IdsOf(Customers, "CustomerID")
           /\ IdsOf(products_df.rows, "ProductCode") \subseteq IdsOf(Products, "ProductCode")
           /\ Len(Sales) = Len(before.Sales) + Len(sales_df.rows)

\* with only the raw-source string set, a run has written customers
\* through the raw-source connection
C30_Witness ==
    /\ config = [processed |-> FALSE, raw |-> TRUE, vault |-> FALSE]
    /\ pc = "done"
    /\ via.save = "SQL_CONNECTION_STRING"
    /\ Customers # <<>>
    /\ Sales # <<>>

(***************************************************************************)
(* SpecStore: pipeline runs against a store that already holds rows        *)
(***************************************************************************)
\* a Customers row written long ago: one whose key the source windows
\* carry, and one whose key they do not
OldCustomer(id, active) ==
    [CustomerID |-> id, CustomerSegment |-> "Legacy", Region |-> "Old",
     SalesRep |-> "R0", TotalOrders |-> Num(9), TotalSalesAmount |-> Num(900),
     LastOrderDate |-> Date(9), CreatedDate |-> 0, UpdatedDate |-> 0,
     IsActive |-> active]

OldProduct(code, active) ==
    [ProductCode |-> code, ProductCategory |-> "Legacy", UnitPrice |-> Num(9),
     TotalQuantitySold |-> Num(90), TotalSalesAmount |-> Num(900),
     CreatedDate |-> 0, UpdatedDate |-> 0, IsActive |-> active]

InitStore ==
    /\ pc = "idle"
    /\ run = 0
    /\ now = 1
    /\ ecc_data = <<>>
    /\ bw_data = <<>>
    /\ customers_df = EmptyFrame
    /\ products_df = EmptyFrame
    /\ sales_df = EmptyFrame
    /\ error = <<>>
    /\ summary = <<>>
    /\ conn = NoConn
    /\ stmt = 0
    /\ \E active \in BOOLEAN :
         /\ Customers = <<OldCustomer("C1", active), OldCustomer("C9", active)>>
         /\ Products = <<OldProduct("P1", active), OldProduct("P9", active)>>
    /\ Sales = <<>>
    /\ before = Store
    /\ last = NoFrames
    /\ stages = <<>>
    /\ NoConc
    /\ NoUpload
    /\ NoInsights
    /\ Deployed

SpecStore == InitStore /\ [][Next]_vars

\* a matched row keeps CreatedDate and IsActive and takes the time of the
\* statement as UpdatedDate
KeptOnMatch(was, is) ==
    /\ is.CreatedDate = was.CreatedDate
    /\ is.IsActive = was.IsActive
    /\ is.UpdatedDate = now

\* a row of a new key is created and updated at the time of the statement
\* and is active
FreshOnInsert(is) ==
    /\ is.CreatedDate = now
    /\ is.UpdatedDate = is.CreatedDate
    /\ is.IsActive = TRUE

\* the table holds for every row of the frame what the upsert of its key
\* has to leave: the times are those of the statement, later than the
\* frame's stamps, and a matched row stays inactive although every frame
\* row is stamped active
UpsertFrame(old, table, df, key) ==
    \A i \in 1..Len(df.rows) :
        LET kv == df.rows[i][key]
            was == Matching(old, key, kv)
            is == Matching(table, key, kv)
        IN  /\ is # {}
            /\ \A b \in is :
                 /\ \A a \in was : KeptOnMatch(old[a], table[b])
                 /\ was = {} => FreshOnInsert(table[b])
                 /\ df.rows[i].UpdatedDate < table[b].UpdatedDate
                 /\ was = {} => df.rows[i].CreatedDate < table[b].CreatedDate
                 /\ df.rows[i].IsActive

\* C25: an upsert of a customer or product whose key already exists
\* changes only the mutable fields and UpdatedDate, the row keeping the
\* CreatedDate and IsActive it had before the run; an upsert of a new key
\* inserts a row with CreatedDate = UpdatedDate and IsActive true; the
\* CreatedDate, UpdatedDate and IsActive stamped by the reconciler are not
\* what is stored
C25_UpsertFrame ==
    pc = "done" =>
        /\ UpsertFrame(before.Customers, Customers, customers_df, "CustomerID")
        /\ UpsertFrame(before.Products, Products, products_df, "ProductCode")

\* a run has upserted a customer that was stored inactive and a customer
\* that was not stored
C25_Witness ==
    /\ pc = "done"
    /\ \E a \in 1..Len(before.Customers) :
         /\ ~before.Customers[a].IsActive
         /\ before.Customers[a].CustomerID \in IdsOf(customers_df.rows, "CustomerID")
    /\ \E i \in 1..Len(customers_df.rows) :
         Matching(before.Customers, "CustomerID", customers_df.rows[i].CustomerID) = {}

\* the keys the run's frame carries
RunKeys(df, key) == {df.rows[i][key] : i \in 1..Len(df.rows)}

\* every row the store held before the run whose key the run does not
\* carry is still there, in its place and as it was
Untouched(old, table, df, key) ==
    /\ Len(table) >= Len(old)
    /\ \A a \in 1..Len(old) :
         old[a][key] \notin RunKeys(df, key) => table[a] = old[a]

\* C26: a pipeline run overwrites the stored rollups and does not
\* accumulate into them: after a successful run the stored TotalOrders,
\* TotalSalesAmount and LastOrderDate of every customer seen in the run are
\* that run's aggregates over the current source window, whatever was
\* stored before, and every Customers and Products row whose key does not
\* occur in the run is left completely unchanged, neither deleted nor
\* deactivated
C26_Overwrite ==
    pc = "done" =>
        /\ \A i \in 1..Len(customers_df.rows) :
             LET r == customers_df.rows[i]
                 is == Matching(Customers, "CustomerID", r.CustomerID)
             IN  /\ is # {}
                 /\ \A b \in is :
                      /\ Customers[b].TotalOrders = r.TotalOrders
                      /\ Customers[b].TotalSalesAmount = r.TotalSalesAmount
                      /\ Customers[b].LastOrderDate = r.LastOrderDate
        /\ \E t \in 0..now : customers_df = process_customer_data(ecc_data, bw_data, t).df
        /\ Untouched(before.Customers, Customers, customers_df, "CustomerID")
        /\ Untouched(before.Products, Products, products_df, "ProductCode")

\* a run has overwritten the larger rollups and the later date stored for
\* a customer, next to a stored customer it did not carry
C26_Witness ==
    /\ pc = "done"
    /\ \E a \in 1..Len(before.Customers), i \in 1..Len(customers_df.rows) :
         /\ before.Customers[a].CustomerID = customers_df.rows[i].CustomerID
         /\ before.Customers[a].TotalSalesAmount.n > customers_df.rows[i].TotalSalesAmount.n
         /\ customers_df.rows[i].LastOrderDate.k = "date"
         /\ before.Customers[a].LastOrderDate.v > customers_df.rows[i].LastOrderDate.v
    /\ \E a \in 1..Len(before.Customers) :
         before.Customers[a].CustomerID \notin RunKeys(customers_df, "CustomerID")

(***************************************************************************)
(* SpecIndex: what a failed document read does to the index                *)
(***************************************************************************)
\* what the reader at position n of the trace added to all_documents
ReadAt(n, kind) == IF trace[n] = "read" THEN stored_docs[kind] ELSE <<>>

\* the ids of a list of documents
Ids(list) == {list[i].id : i \in 1..Len(list)}

\* a reader has run
SomeRead == \E n \in 1..Len(trace) : trace[n] \in {"read", "read_failed"}

\* C27: update_search_index clears the index before it reads any document
\* from the store, and a failed read yields an empty list instead of an
\* error: if all three reads fail or return nothing after a successful
\* clear, the index is left empty and the call returns "No documents found
\* to upload"; if only some fail, the remaining documents are uploaded and
\* the call reports success, so an index that held documents can lose some
\* without any failure being reported
C27_ClearThenRead ==
    /\ SomeRead =>
           /\ Steps(2) = <<"created", "cleared">>
           /\ \A n \in 1..Len(trace) : trace[n] \in {"read", "read_failed"} => n > 2
           /\ Len(trace) <= 5 => index = {}
    /\ Len(trace) >= 5 =>
           all_documents =
               ReadAt(3, "customers") \o ReadAt(4, "sales") \o ReadAt(5, "products")
    /\ ipc = "returned" /\ SomeRead =>
           /\ Len(trace) >= 5
           /\ all_documents = <<>> =>
                  /\ index = {}
                  /\ returned = Return("No documents found to upload")
           /\ all_documents # <<>> /\ upc = "True" =>
                  /\ returned = ReturnCount("Successfully updated search index with documents",
                                            Len(all_documents))
                  /\ index = Ids(all_documents) \ rejected
           /\ all_documents # <<>> =>
                  returned \notin {Return("No documents found to upload"),
                                   Return("Error updating search index")}

\* the index held the stored customer document, the customer read failed
\* and the sales read did not, and the call has reported success for an
\* index without the customer document
C27_Witness ==
    /\ ipc = "returned"
    /\ Len(trace) >= 5
    /\ trace[3] = "read_failed"
    /\ trace[4] = "read"
    /\ stored_docs.customers # <<>>
    /\ Ids(stored_docs.customers) \subseteq deleted
    /\ Ids(stored_docs.customers) \cap index = {}
    /\ index # {}
    /\ returned = ReturnCount("Successfully updated search index with documents",
                              Len(all_documents))

(***************************************************************************)
(* SpecUpload: what upload_documents reports and what it leaves behind     *)
(***************************************************************************)
\* the ids of the first n documents of the list
IdsUpTo(n) == {documents[k].id : k \in 1..Min(n, Len(documents))}

\* C28: upload_documents reports success whenever no batch call raises,
\* even if the index service rejected documents of a batch, which are only
\* logged; when a batch call raises, the batches uploaded before it stay in
\* the index, the remaining batches are not sent and the call returns
\* failure, so the index can hold a strict prefix of the document list
C28_PartialUpload ==
    /\ upc = "True" =>
           /\ Len(batches) = BatchesFor(Len(documents))
           /\ index = IdsUpTo(Len(documents)) \ rejected
    /\ upc = "False" =>
           /\ batch_start = Len(batches) * batch_size
           /\ index = IdsUpTo(batch_start) \ rejected
           /\ batches # <<>> =>
                  /\ batch_start < Len(documents)
                  /\ Len(batches) < BatchesFor(Len(documents))
                  /\ \A k \in (batch_start + 1)..Len(documents) :
                       documents[k].id \notin index
    /\ rejected \subseteq IdsUpTo(batch_start)
    /\ upc \in {"client", "loop", "True", "False"}

\* the second batch call raised: the first batch is in the index but for
\* the document the service rejected, and the call has returned False
C28_Witness ==
    /\ upc = "False"
    /\ Len(batches) = 1
    /\ rejected # {}
    /\ index # {}
    /\ Len(documents) > batch_size

(***************************************************************************)
(* generate_all_insights of generate_insights.py: read the sales of the    *)
(* last 30 days, compute the five insights, save them with save_insights   *)
(***************************************************************************)
\* the keys of the insights dict, in the order it is built
InsightNames ==
    <<"sales_trends", "customer_insights", "product_insights",
      "regional_insights", "sales_rep_insights">>

\* the most sales rows the store holds for the last 30 days
MaxSales == 2

\* str(insight_data)
str(value) == [k |-> "str", v |-> value]

\* a row an earlier call has left in BusinessInsights
OldInsight ==
    [InsightType |-> "sales_trends", InsightData |-> str([error |-> FALSE]),
     GeneratedDate |-> 0, IsActive |-> TRUE]

\* what an INSERT INTO BusinessInsights (InsightType, InsightData) stores:
\* GeneratedDate and IsActive take their defaults
InsertedInsight(insight, t) ==
    [InsightType |-> insight.type, InsightData |-> str(insight.data),
     GeneratedDate |-> t, IsActive |-> TRUE]

\* the other variables of the model, which this call leaves alone
other_vars_insights ==
    <<seq_vars, now, Customers, Products, Sales, conc_vars, deploy_vars,
      upload_vars, ipc, all_documents, stored_docs, trace, deleted>>

\* generate_all_insights is called
InitInsights ==
    /\ PipelineAtRest("generate_all_insights")
    /\ NoConc
    /\ NoUpload
    /\ gpc = "read"
    /\ sales_data = [rows |-> 0]
    /\ insights = <<>>
    /\ itx = NoTable
    /\ BusinessInsights \in {NoTable, [exists |-> TRUE, rows |-> <<OldInsight>>]}
    /\ gtrace = <<>>

\* get_sales_data(30) returns the frame it read; an empty one ends the call
GetSalesData ==
    /\ gpc = "read"
    /\ \E n \in 0..MaxSales :
         /\ sales_data' = [rows |-> n]
         /\ gpc' = IF n = 0 THEN "returned" ELSE "generate"
         /\ returned' = IF n = 0
                        THEN Return("No sales data available for insights generation")
                        ELSE returned
    /\ gtrace' = Append(gtrace, "read")
    /\ UNCHANGED <<insights, itx, BusinessInsights>>
    /\ UNCHANGED other_vars_insights

\* get_sales_data logs the exception of the connection or the query and
\* returns an empty frame
GetSalesDataFails ==
    /\ gpc = "read"
    /\ sales_data' = [rows |-> 0]
    /\ gpc' = "returned"
    /\ returned' = Return("No sales data available for insights generation")
    /\ gtrace' = Append(gtrace, "read_failed")
    /\ UNCHANGED <<insights, itx, BusinessInsights>>
    /\ UNCHANGED other_vars_insights

\* an insight that is left out of the dict when its computation failed
GenerateInsight_dropped ==
    /\ gpc = "generate"
    /\ Len(gtrace) < 1 + Len(InsightNames)
    /\ \E failed \in BOOLEAN :
         /\ insights' =
              IF failed THEN insights
              ELSE Append(insights, [type |-> InsightNames[Len(gtrace)],
                                     data |-> [error |-> FALSE]])
         /\ gtrace' = Append(gtrace, IF failed THEN "error" ELSE "computed")
    /\ UNCHANGED <<gpc, sales_data, itx, BusinessInsights, returned>>
    /\ UNCHANGED other_vars_insights

\* the next generate_* call of the dict: its result, or the {"error": ...}
\* it returns when its computation raises
GenerateInsight ==
    /\ gpc = "generate"
    /\ Len(gtrace) < 1 + Len(InsightNames)
    /\ \E failed \in BOOLEAN :
         /\ insights' = Append(insights, [type |-> InsightNames[Len(gtrace)],
                                          data |-> [error |-> failed]])
         /\ gtrace' = Append(gtrace, IF failed THEN "error" ELSE "computed")
    /\ UNCHANGED <<gpc, sales_data, itx, BusinessInsights, returned>>
    /\ UNCHANGED other_vars_insights

\* save_insights: pyodbc.connect opens the transaction
ConnectInsights ==
    /\ gpc = "generate"
    /\ Len(gtrace) = 1 + Len(InsightNames)
    /\ itx' = BusinessInsights
    /\ gpc' = "create"
    /\ UNCHANGED <<sales_data, insights, BusinessInsights, gtrace, returned>>
    /\ UNCHANGED other_vars_insights

\* CREATE TABLE BusinessInsights unless it exists
CreateTable ==
    /\ gpc = "create"
    /\ itx' = [itx EXCEPT !.exists = TRUE]
    /\ gpc' = "insert"
    /\ UNCHANGED <<sales_data, insights, BusinessInsights, gtrace, returned>>
    /\ UNCHANGED other_vars_insights

\* the rows the transaction has inserted
Inserted == Len(itx.rows) - Len(BusinessInsights.rows)

\* the next INSERT of the loop over insights.items()
InsertInsight ==
    /\ gpc = "insert"
    /\ Inserted < Len(insights)
    /\ itx' = [itx EXCEPT !.rows = Append(@, InsertedInsight(insights[Inserted + 1], now))]
    /\ UNCHANGED <<gpc, sales_data, insights, BusinessInsights, gtrace, returned>>
    /\ UNCHANGED other_vars_insights

\* conn.commit() after the loop: return True, and the success string
CommitInsights ==
    /\ gpc = "insert"
    /\ Inserted = Len(insights)
    /\ BusinessInsights' = itx
    /\ itx' = NoTable
    /\ gpc' = "returned"
    /\ gtrace' = Append(gtrace, "committed")
    /\ returned' = ReturnCount("Successfully generated and saved insights for sales records",
                               sales_data.rows)
    /\ UNCHANGED <<sales_data, insights>>
    /\ UNCHANGED other_vars_insights

\* the connection, a statement or the commit raises: the transaction is
\* rolled back, save_insights logs and returns False
SaveInsightsFails ==
    /\ \/ gpc = "generate" /\ Len(gtrace) = 1 + Len(InsightNames)
       \/ gpc \in {"create", "insert"}
    /\ itx' = NoTable
    /\ gpc' = "returned"
    /\ gtrace' = Append(gtrace, "save_failed")
    /\ returned' = Return("Generated insights but failed to save to database")
    /\ UNCHANGED <<sales_data, insights, BusinessInsights>>
    /\ UNCHANGED other_vars_insights

NextInsights ==
    \/ GetSalesData
    \/ GetSalesDataFails
    \/ GenerateInsight
    \/ ConnectInsights
    \/ CreateTable
    \/ InsertInsight
    \/ CommitInsights
    \/ SaveInsightsFails

SpecInsights == InitInsights /\ [][NextInsights]_vars

\* the rows of BusinessInsights this call has made visible
NewRows == SelectSeq(BusinessInsights.rows, LAMBDA r : r.GeneratedDate = now)

\* C29: generate_all_insights persists either all five named insights, one
\* row each in a single commit, or none; it persists none and returns the
\* same "No sales data available for insights generation" string both when
\* the store holds no sales of the last 30 days and when the sales read
\* itself failed; an insight whose computation failed is still persisted,
\* as a row that holds its error value
C29_AllFiveOrNone ==
    /\ \/ NewRows = <<>> /\ (gtrace = <<>> \/ gtrace[Len(gtrace)] # "committed")
       \/ /\ Len(NewRows) = 5
          /\ gtrace # <<>> /\ gtrace[Len(gtrace)] = "committed"
          /\ \A k \in 1..5 :
               /\ NewRows[k].InsightType = InsightNames[k]
               /\ NewRows[k].InsightData = str([error |-> gtrace[k + 1] = "error"])
          /\ returned = ReturnCount("Successfully generated and saved insights for sales records",
                                    sales_data.rows)
    /\ gpc = "returned" /\ sales_data.rows = 0 =>
           /\ gtrace \in {<<"read">>, <<"read_failed">>}
           /\ NewRows = <<>>
           /\ returned = Return("No sales data available for insights generation")
    /\ gpc = "returned" /\ sales_data.rows > 0 /\ NewRows = <<>> =>
           returned = Return("Generated insights but failed to save to database")
    /\ gpc # "returned" => returned = <<>>

\* a call has committed its five rows, one of them for an insight whose
\* computation failed
C29_Witness ==
    /\ gpc = "returned"
    /\ Len(NewRows) = 5
    /\ \E k \in 1..5 : NewRows[k].InsightData = str([error |-> TRUE])
    /\ \E k \in 1..5 : NewRows[k].InsightData = str([error |-> FALSE])

====
